---- MODULE Spec2Model ----
(***************************************************************************)
(* Volcano-Engine websocket TTS bridge: the admission gate, the upstream   *)
(* relay loop of streamSynthesize and the response frame decoder.          *)
(*                                                                         *)
(* Bytes are naturals 0..255, byte strings are sequences of bytes.  Every  *)
(* goroutine that runs streamSynthesize is a "call"; its position in the   *)
(* function is pc[c].  A step of a call is one statement that touches      *)
(* shared state (the semaphore channel, the metrics counter, the socket)   *)
(* together with the purely local statements that follow it.               *)
(***************************************************************************)
EXTENDS Integers, Sequences, FiniteSets, TLC

\* ------------------------------------------------------------------------
\* Configuration (config.LoadConfig) and the bounds of the model
\* ------------------------------------------------------------------------

\* MAX_CONCURRENT_CALLS: any positive integer (ValidateConfig); the gate is
\* run here with a capacity of 2.
MaxConcurrentCalls == 2

\* MAX_TEXT_LENGTH, at its default.
MaxTextLength == 5000

\* The upstream sends at most MaxFrames frames that keep the receive loop
\* running; after them it only ends the stream (final frame, error frame or
\* a failed read).
MaxFrames == 2

\* The goroutines calling streamSynthesize: one more than the gate admits.
Calls == 1 .. (MaxConcurrentCalls + 1)

\* One further call, followed on its own (specification SpecRelay) against an
\* upstream that may send every kind of frame.
Relay == 0

\* The requests handleOpenAITTSRequest serves, one more than the gate admits;
\* request h is served by the call of streamSynthesize with the same number.
Handlers == {MaxConcurrentCalls + 1 + c : c \in Calls}
FirstHandler == MaxConcurrentCalls + 2
AllCalls == Calls \cup {Relay} \cup Handlers

\* MAX_CONNECTIONS at its default, and the values it is given where the
\* handler is followed: below and at the number of requests.
DefaultMaxConnections == 100
MaxConnectionsValues == {1, MaxConcurrentCalls + 1}

\* READ_TIMEOUT and WRITE_TIMEOUT at their defaults, in seconds.
ConfigReadTimeout == 30
ConfigWriteTimeout == 30

\* The longest body of a frame handed to the codec on its own.
MaxBody == 2

\* The calls of RecordRequest that are followed.
MaxRequests == 2

\* The response times that are recorded, in milliseconds.
ResponseTimes == {100, 101, 200}

\* The most connections that are counted at a time when the registry is
\* followed on its own.
MaxActive == 1

\* The goroutines that are inside methods of the registry at a time.
MaxThreads == 3

\* The calls of RecordError that are followed when the error log is followed
\* on its own, and the changes a client makes through a slice it was given.
MaxRecorded == 105
MaxClientOps == 1

\* The calls of RecordError that are followed next to the counters.
MaxLogged == 1

\* RecordError keeps the last 100 records.
MaxErrorRecords == 100

\* Lengths of the texts the calls are made with (len(text), in bytes).
TextLengths == {MaxTextLength, MaxTextLength + 1}

\* ------------------------------------------------------------------------
\* Byte-level helpers
\* ------------------------------------------------------------------------

\* int32(binary.BigEndian.Uint32(b[0:4])): the big-endian 32 bit word read as
\* a two's complement number (the top byte carries the sign).
BigEndianInt32(b) ==
  (IF b[1] >= 128 THEN b[1] - 256 ELSE b[1]) * 16777216
    + b[2] * 65536 + b[3] * 256 + b[4]

\* binary.BigEndian.PutUint32(arr, uint32(n)): the 4 bytes of the two's
\* complement word of n, most significant first.
PutUint32(n) ==
  << (n \div 16777216) % 256, (n \div 65536) % 256, (n \div 256) % 256, n % 256 >>

\* s[from:] of Go, with from counted from 0
SliceFrom(s, from) == SubSeq(s, from + 1, Len(s))

\* gzip container, reduced to what the decoder can observe: a magic header,
\* the body, and a trailer that has to agree with the body (ISIZE).
GzipMagic == << 31, 139, 8 >>

\* (mutant) the writer is not closed: no trailer is written
gzipCompress_NoTrailer(input) == GzipMagic \o input

gzipCompress(input) == GzipMagic \o input \o << Len(input) % 256 >>

\* gzip.NewReader fails on a short or wrong header, io.ReadAll on a trailer
\* that does not agree with the body.
GzipValid(input) ==
  /\ Len(input) >= Len(GzipMagic) + 1
  /\ SubSeq(input, 1, Len(GzipMagic)) = GzipMagic
  /\ input[Len(input)] = (Len(input) - Len(GzipMagic) - 1) % 256

\* (mutant) what cannot be decompressed is dropped
gzipDecompress_FailClosed(input) ==
  IF GzipValid(input)
    THEN SubSeq(input, Len(GzipMagic) + 1, Len(input) - 1)
    ELSE << >>

\* on either error the input is returned as it came
gzipDecompress(input) ==
  IF GzipValid(input)
    THEN SubSeq(input, Len(GzipMagic) + 1, Len(input) - 1)
    ELSE input

\* ------------------------------------------------------------------------
\* Errors
\* ------------------------------------------------------------------------

\* An error value: its kind, and the code and text it carries (if any).
Err(kind, code, msg) == [kind |-> kind, code |-> code, msg |-> msg]

NoErr == Err("nil", 0, << >>)

\* The zero value of SynthResp
ZeroResp == [Audio |-> << >>, IsLast |-> FALSE]

\* ------------------------------------------------------------------------
\* parseByteDanceResponse
\* ------------------------------------------------------------------------

\* (mutant) the end of the stream is read from the flags
ParseAudio_FlagLast(flags, payload) ==
  IF flags = 0
    THEN [resp |-> ZeroResp, err |-> NoErr]
    ELSE IF Len(payload) < 8
      THEN [resp |-> ZeroResp, err |-> Err("audio_insufficient_data", 0, << >>)]
      ELSE [resp |-> [Audio |-> SliceFrom(payload, 8), IsLast |-> flags \in {2, 3}],
            err  |-> NoErr]

\* (mutant) the sign of the sequence number is not looked at
ParseAudio_NeverLast(flags, payload) ==
  IF flags = 0
    THEN [resp |-> ZeroResp, err |-> NoErr]
    ELSE IF Len(payload) < 8
      THEN [resp |-> ZeroResp, err |-> Err("audio_insufficient_data", 0, << >>)]
      ELSE [resp |-> [Audio |-> SliceFrom(payload, 8), IsLast |-> FALSE], err |-> NoErr]

\* case 0xb: audio-only server response
ParseAudio(flags, payload) ==
  IF flags = 0
    THEN [resp |-> ZeroResp, err |-> NoErr]
    ELSE IF Len(payload) < 8
      THEN [resp |-> ZeroResp, err |-> Err("audio_insufficient_data", 0, << >>)]
      ELSE LET sequenceNumber == BigEndianInt32(SubSeq(payload, 1, 4))
               audioData      == SliceFrom(payload, 8)
           IN  [resp |-> [Audio |-> audioData, IsLast |-> sequenceNumber < 0],
                err  |-> NoErr]

\* (mutant) the error frame is skipped like a frontend message
ParseError_Ignored(compression, payload) ==
  IF Len(payload) < 8
    THEN [resp |-> ZeroResp, err |-> Err("error_insufficient_data", 0, << >>)]
    ELSE [resp |-> ZeroResp, err |-> NoErr]

\* case 0xf: error message
ParseError(compression, payload) ==
  IF Len(payload) < 8
    THEN [resp |-> ZeroResp, err |-> Err("error_insufficient_data", 0, << >>)]
    ELSE LET code      == BigEndianInt32(SubSeq(payload, 1, 4))
             raw       == SliceFrom(payload, 8)
             errorData == IF compression = 1 THEN gzipDecompress(raw) ELSE raw
         IN  [resp |-> ZeroResp, err |-> Err("server_error", code, errorData)]

\* What case 0xc prints: payload[4:], decompressed if the frame says gzip
FrontendMessage(compression, payload) ==
  LET frontendPayload == SliceFrom(payload, 4)
  IN  IF compression = 1 THEN gzipDecompress(frontendPayload) ELSE frontendPayload

\* (mutant) a frontend message is taken for the end of the stream
ParseFrontend_Terminates(compression, payload) ==
  IF Len(payload) < 4
    THEN [resp |-> ZeroResp, err |-> Err("frontend_insufficient_data", 0, << >>)]
    ELSE [resp |-> [Audio |-> << >>, IsLast |-> TRUE], err |-> NoErr]

\* case 0xc: frontend message (printed, nothing is returned)
ParseFrontend(compression, payload) ==
  IF Len(payload) < 4
    THEN [resp |-> ZeroResp, err |-> Err("frontend_insufficient_data", 0, << >>)]
    ELSE [resp |-> ZeroResp, err |-> NoErr,
          printed |-> FrontendMessage(compression, payload)]

\* (mutant) a message of unknown type is skipped
ParseUnknown_Skipped(messageType) == [resp |-> ZeroResp, err |-> NoErr]

\* default: err = fmt.Errorf("unknown message type: %d", messageType)
ParseUnknown(messageType) ==
  [resp |-> ZeroResp, err |-> Err("unknown_message_type", messageType, << >>)]

\* (mutant) the header size is compared as a count of bytes, not of words
parseByteDanceResponse_HeaderInBytes(res) ==
  IF Len(res) < 4
    THEN [resp |-> ZeroResp, err |-> Err("too_short", 0, << >>)]
    ELSE LET headSize                 == res[1] % 16
             messageType              == res[2] \div 16
             messageTypeSpecificFlags == res[2] % 16
             messageCompression       == res[3] % 16
             headBytes                == (headSize * 4) % 256
         IN  IF headSize > Len(res)
               THEN [resp |-> ZeroResp, err |-> Err("header_exceeds_data", 0, << >>)]
               ELSE LET payload == SliceFrom(res, headBytes)
                    IN  CASE messageType = 11 -> ParseAudio(messageTypeSpecificFlags, payload)
                          [] messageType = 15 -> ParseError(messageCompression, payload)
                          [] messageType = 12 -> ParseFrontend(messageCompression, payload)
                          [] OTHER -> ParseUnknown(messageType)

\* func parseByteDanceResponse(res []byte) (resp SynthResp, err error)
parseByteDanceResponse(res) ==
  IF Len(res) < 4
    THEN [resp |-> ZeroResp, err |-> Err("too_short", 0, << >>)]
    ELSE LET headSize                 == res[1] % 16
             messageType              == res[2] \div 16
             messageTypeSpecificFlags == res[2] % 16
             messageCompression       == res[3] % 16
             headBytes                == (headSize * 4) % 256
         IN  IF headBytes > Len(res)
               THEN [resp |-> ZeroResp, err |-> Err("header_exceeds_data", 0, << >>)]
               ELSE LET payload == SliceFrom(res, headBytes)
                    IN  CASE messageType = 11 -> ParseAudio(messageTypeSpecificFlags, payload)
                          [] messageType = 15 -> ParseError(messageCompression, payload)
                          [] messageType = 12 -> ParseFrontend(messageCompression, payload)
                          [] OTHER -> ParseUnknown(messageType)

\* ------------------------------------------------------------------------
\* What the upstream can put on the wire
\* ------------------------------------------------------------------------

\* The 4 header bytes of a frame with 1 header word: version 1, header size
\* 1, message type, flags, serialization 1, compression, reserved.
Header(messageType, flags, compression) ==
  << 17, messageType * 16 + flags, 16 + compression, 0 >>

\* An audio frame: header, sequence number, payload size, audio bytes.
AudioFrame(flags, sequenceNumber, bytes) ==
  Header(11, flags, 0) \o PutUint32(sequenceNumber) \o PutUint32(Len(bytes)) \o bytes

\* Two audio chunks whose sequence numbers arrive out of order (5 before 3)
\* when sent as FrameA, FrameB, and repeated when one is sent twice.
FrameA == AudioFrame(1, 5, << 1 >>)
FrameB == AudioFrame(1, 3, << 2 >>)

\* The terminal chunk: negative sequence number.
FrameLast == AudioFrame(3, -1, << 3 >>)

\* Acknowledgment: audio type, flags 0, nothing after the header.
FrameAck == Header(11, 0, 0)

\* Error frame: code 3001, the message gzip-compressed.
FrameErrorGzip ==
  Header(15, 0, 1) \o PutUint32(3001) \o PutUint32(5) \o gzipCompress(<< 69 >>)

\* A message type the decoder does not know.
FrameUnknown == Header(9, 0, 0)

\* Frontend messages: message size and body, plain and flagged gzip with a
\* body that is no gzip stream.
FrameFrontend == Header(12, 0, 0) \o PutUint32(1) \o << 70 >>
FrameFrontendGzip == Header(12, 0, 1) \o PutUint32(1) \o << 70 >>

\* An acknowledgment that carries bytes after the header all the same.
FrameAckPayload == Header(11, 0, 0) \o PutUint32(9) \o PutUint32(1) \o << 4 >>

\* Frames of every message type other than 0xB, 0xC and 0xF, with and
\* without a payload.
UnknownTypes == (0 .. 15) \ {11, 12, 15}
UnknownFrames ==
  {Header(t, 0, 0) : t \in UnknownTypes}
    \cup {Header(t, 1, 1) \o PutUint32(5) \o PutUint32(1) \o << 1 >> : t \in UnknownTypes}

\* Malformed frames of an unknown message type: 2 bytes only, and a header
\* size of 15 words declared in a frame of 4 bytes.
FrameShort == << 17, 144 >>
FrameHeaderExceeds == << 31, 144, 16, 0 >>

\* Frames after which the upstream has nothing more to send.
FinalFrames ==
  {FrameLast, FrameErrorGzip, FrameUnknown, FrameShort, FrameHeaderExceeds}
    \cup UnknownFrames

\* Call 1 is served by an upstream that may send chunks, acknowledgments,
\* the terminal chunk, an error frame or a frame of unknown type, and may
\* fail any read; the other calls of Calls are load on the gate: their
\* upstream answers with the terminal chunk at once.  The upstream of the
\* relay call may send every frame defined above.
Upstream(c) ==
  CASE c = 1 -> {FrameA, FrameB, FrameAck, FrameLast, FrameErrorGzip, FrameUnknown}
    [] c = Relay -> {FrameA, FrameB, FrameAck, FrameAckPayload, FrameFrontend,
                     FrameFrontendGzip} \cup FinalFrames
    [] c = FirstHandler -> {FrameLast, FrameErrorGzip, FrameShort}
    [] OTHER -> {FrameLast}

\* Errors of conn.ReadMessage: a CloseError with its close code (1000 normal
\* closure, 1001 going away, 1006 abnormal closure: the code the websocket
\* library reports when the peer vanishes without a close frame) or an error
\* that is no CloseError (read deadline exceeded).
CloseError(code) == Err("CloseError", code, << >>)
ReadTimeout == Err("timeout", 0, << >>)

ReadErrors(c) ==
  CASE c \in {1, Relay} -> {CloseError(1000), CloseError(1001), CloseError(1006),
                            ReadTimeout}
    [] c = FirstHandler -> {ReadTimeout}
    [] OTHER -> {}

\* websocket.CloseGoingAway, websocket.CloseAbnormalClosure
CloseGoingAway == 1001
CloseAbnormalClosure == 1006

\* websocket.IsUnexpectedCloseError(err, expectedCodes...): true for a
\* CloseError whose code is NOT one of expectedCodes.
IsUnexpectedCloseError(err, expectedCodes) ==
  /\ err.kind = "CloseError"
  /\ err.code \notin expectedCodes

\* ------------------------------------------------------------------------
\* State
\* ------------------------------------------------------------------------

VARIABLES
  semaphore,     \* number of elements in the buffered channel `semaphore`
  currentCalls,  \* GlobalMetrics.currentCalls
  pc,            \* pc[c]: where call c is in streamSynthesize
  text,          \* text[c]: len(text) of the call
  conn,          \* conn[c]: the upstream connection: "none", "open", "closed"
  audio,         \* audio[c]: the accumulator `audio`
  received,      \* received[c]: the messages ReadMessage has returned, in order
  readErr,       \* readErr[c]: the error ReadMessage has returned (NoErr: none)
  result,        \* result[c]: what the call returned
  acquired,      \* acquired[c]: sends to the semaphore by this call
  released,      \* released[c]: receives from the semaphore by this call
  dials,         \* dials[c]: calls of Dial
  writes,        \* writes[c]: calls of WriteMessage
  reads,         \* reads[c]: calls of ReadMessage
  readDeadline,  \* readDeadline[c]: the read deadline of the connection (0: none)
  writeDeadline, \* writeDeadline[c]: the write deadline of the connection (0: none)
  defaultHeader, \* the package variable defaultHeader
  input,         \* codec: the bytes a codec function is applied to
  op,            \* codec: the function that was applied ("none": not yet)
  output,        \* codec: what it returned
  requestCount,      \* GlobalMetrics.requestCount
  successCount,      \* GlobalMetrics.successCount
  errorCount,        \* GlobalMetrics.errorCount
  activeConnections, \* GlobalMetrics.activeConnections
  totalResponseTime, \* GlobalMetrics.totalResponseTime
  errors,            \* GlobalMetrics.errors: the records the slice holds
  logged,            \* calls of RecordError so far (the clock of the timestamps)
  got,               \* client: what its last call of a method returned
  records,           \* client: the array made by its last GetErrorRecords
  held,              \* client: the slice it holds: its array and length, and
                     \*         the changes the client has made through it
  mu,                \* GlobalMetrics.mu: the writer and the readers inside
  thread,            \* thread[t]: a goroutine inside a method of the registry
  handler,           \* handler[h]: where request h is in handleOpenAITTSRequest,
                     \*             the request it carries and its response
  maxConnections,    \* appConfig.MaxConnections
  args,              \* args[c]: the voice and the speed call c was given
  params,            \* params[c]: the request object setupByteDanceInput built
  monitor,           \* monitor[m]: a monitoring WebSocket connection: where its
                     \*             handler and its reader goroutine are, the quit
                     \*             channel and the connection
  clock,             \* the time (now) and the package variable startTime
  health             \* a health check: where it is and the response it builds

\* The variables of the codec specification
codecVars == << defaultHeader, input, op, output >>

\* The fields of GlobalMetrics other than currentCalls, and the variables of
\* a client of the registry
metricsVars == << requestCount, successCount, errorCount, activeConnections,
                 totalResponseTime, errors, logged >>
clientVars == << got, records, held >>
lockVars == << mu, thread >>
handlerVars == << handler, maxConnections, args, params >>
serviceVars == << monitor, clock, health >>
outerVars == << metricsVars, clientVars, lockVars, handlerVars, serviceVars >>

\* The variables of the calls of streamSynthesize
synthVars == << semaphore, pc, text, conn, audio, received, readErr, result, acquired,
               released, dials, writes, reads, readDeadline, writeDeadline >>

\* What the actions on the registry as a whole leave alone
otherVars == << synthVars, codecVars, lockVars, handlerVars, serviceVars >>

vars == << semaphore, currentCalls, pc, text, conn, audio, received, readErr,
           result, acquired, released, dials, writes, reads,
           readDeadline, writeDeadline, codecVars, outerVars >>

\* result while the call has not returned
Pending == [audio |-> << >>, err |-> Err("pending", 0, << >>), cause |-> NoErr]

\* return audio, nil
Ok(aud) == [audio |-> aud, err |-> NoErr, cause |-> NoErr]

\* return nil, fmt.Errorf("%w: %v", sentinel, cause)
Fail(sentinel, cause) == [audio |-> << >>, err |-> Err(sentinel, 0, << >>), cause |-> cause]

\* var defaultHeader = []byte{0x11, 0x10, 0x11, 0x00}
DefaultHeaderBytes == << 17, 16, 17, 0 >>

\* What a codec function has returned: a response and an error, with the
\* message it has printed as the bytes (parseByteDanceResponse), or bytes
\* (the others).
NoOutput == [resp |-> ZeroResp, err |-> NoErr, bytes |-> << >>]
Parsed(r) ==
  [resp |-> r.resp, err |-> r.err,
   bytes |-> IF "printed" \in DOMAIN r THEN r.printed ELSE << >>]
Bytes(b) == [resp |-> ZeroResp, err |-> NoErr, bytes |-> b]

\* The goroutines that are followed statement by statement.
Threads == 1 .. MaxThreads

\* sync.RWMutex with nobody inside, and a goroutine outside every method.
Unlocked == [writer |-> 0, readers |-> {}]
Outside ==
  [pc |-> "idle", method |-> "none", success |-> FALSE, ms |-> 0, step |-> 0,
   regs |-> << >>, ret |-> [getter |-> "none", num |-> 0, den |-> 1]]

\* What a getter of the registry has returned: a number, as a fraction
\* (GetSuccessRate returns a float64, the others an int); the other
\* methods return nothing.
Returns(getter, num, den) == [getter |-> getter, num |-> num, den |-> den]
NotAsked == Returns("none", 0, 1)

\* The client holds no slice.
NoSlice == [array |-> "none", len |-> 0, edits |-> 0]

\* initMetrics(): startTime: time.Now(), errors: make([]ErrorRecord, 0);
\* no client has asked anything.
InitMetrics ==
  /\ requestCount = 0
  /\ successCount = 0
  /\ errorCount = 0
  /\ activeConnections = 0
  /\ totalResponseTime = 0
  /\ errors = << >>
  /\ logged = 0
  /\ got = NotAsked
  /\ records = << >>
  /\ held = NoSlice
  /\ mu = Unlocked
  /\ thread = [t \in Threads |-> Outside]

\* (mutant) the request object carries the voice the call was given
TTSParams_PassedVoice(c, txt, voiceType, speed) ==
  [reqid |-> c, text |-> txt, voice_type |-> voiceType, speed_ratio |-> speed]

\* BYTEDANCE_TTS_VOICE_TYPE as configured (appConfig.ByteDanceVoiceType)
ByteDanceVoiceType == "configured_voice"

\* func mapOpenAIVoiceToByteDance(openAIVoice string) string: a voice of the
\* table is mapped to itself, any other to "alloy"
OpenAIVoices == {"alloy", "echo", "fable", "onyx", "nova", "shimmer"}
mapOpenAIVoiceToByteDance(openAIVoice) ==
  IF openAIVoice \in OpenAIVoices THEN openAIVoice ELSE "alloy"

\* Speeds are kept in tenths: 10 is the speed 1.0.
\* The arguments of a call that no request has made: a voice of the table and
\* the speed 1.0.
DefaultArgs == [voiceType |-> mapOpenAIVoiceToByteDance("alloy"), speed |-> 10]

\* No request object built yet
NoParams == [reqid |-> 0, text |-> 0, voice_type |-> "", speed_ratio |-> 0]

\* setupByteDanceInput(text, opt, speed): voiceType := appConfig.ByteDanceVoiceType;
\* the object holds audio.voice_type, audio.speed_ratio, request.reqid (a
\* fresh uuid: here the number of the call) and request.text.  streamSynthesize
\* drops its voiceType argument (_ = voiceType) before it calls this.
TTSParams(c, txt, voiceType, speed) ==
  [reqid |-> c, text |-> txt, voice_type |-> ByteDanceVoiceType,
   speed_ratio |-> speed]

\* The monitoring WebSocket connections followed
MaxMonitors == 2
Monitors == 1 .. MaxMonitors

\* A monitoring connection that has not been asked for
NotConnected ==
  [pc |-> "idle", reader |-> "none", quit |-> "none", closes |-> 0, conn |-> "none",
   pushes |-> 0, panic |-> "none"]

\* No health check under way
NotChecking == [step |-> 0, response |-> << >>]

\* startTime = time.Now() when the service starts; where time is not followed
\* the service has been running for a while and every request is served at
\* the same instant.
Running == [now |-> 100, startTime |-> 0]

\* A request that has not arrived
NoRequest == [key |-> "", body |-> "", input |-> 0, voice |-> "", speed |-> 0]
NotArrived ==
  [pc |-> "idle", arrived |-> 0, req |-> NoRequest, status |-> 0, error |-> "",
   recorded |-> "no"]

\* No call is under way.
InitCalls ==
  /\ InitMetrics
  /\ monitor = [m \in Monitors |-> NotConnected]
  /\ health = NotChecking
  /\ handler = [h \in Handlers |-> NotArrived]
  /\ args = [c \in AllCalls |-> DefaultArgs]
  /\ params = [c \in AllCalls |-> NoParams]
  /\ semaphore = 0
  /\ currentCalls = 0
  /\ pc = [c \in AllCalls |-> "idle"]
  /\ text = [c \in AllCalls |-> 0]
  /\ conn = [c \in AllCalls |-> "none"]
  /\ audio = [c \in AllCalls |-> << >>]
  /\ received = [c \in AllCalls |-> << >>]
  /\ readErr = [c \in AllCalls |-> NoErr]
  /\ result = [c \in AllCalls |-> Pending]
  /\ acquired = [c \in AllCalls |-> 0]
  /\ released = [c \in AllCalls |-> 0]
  /\ dials = [c \in AllCalls |-> 0]
  /\ writes = [c \in AllCalls |-> 0]
  /\ reads = [c \in AllCalls |-> 0]
  /\ readDeadline = [c \in AllCalls |-> 0]
  /\ writeDeadline = [c \in AllCalls |-> 0]

Init ==
  /\ InitCalls
  /\ maxConnections = DefaultMaxConnections
  /\ clock = Running
  /\ defaultHeader = DefaultHeaderBytes
  /\ input = << >>
  /\ op = "none"
  /\ output = NoOutput

\* ------------------------------------------------------------------------
\* streamSynthesize, statement by statement
\* ------------------------------------------------------------------------

\* Where a return statement continues, by the deferred functions registered
\* at that point: before `defer c.Close()` only the release of the ticket,
\* after it the close of the connection first (deferred calls run last-in
\* first-out).
\* (mutants) a return that skips the deferred release / the deferred close
ExitBeforeDial_NoRelease == "done"
ExitBeforeDial_DecOnly == "dec"
ExitBeforeDial_Stuck == "stuck"
ExitAfterDial_NoClose == "release"

ExitBeforeDial == "release"
ExitAfterDial == "close"

\* handleOpenAITTSRequest calls streamSynthesize(req.Input, ...): a fresh
\* activation, with fresh locals.
Call(c) ==
  /\ pc[c] \in {"idle", "done"}
  /\ \E n \in TextLengths : text' = [text EXCEPT ![c] = n]
  /\ pc' = [pc EXCEPT ![c] = "acquire"]
  /\ conn' = [conn EXCEPT ![c] = "none"]
  /\ audio' = [audio EXCEPT ![c] = << >>]
  /\ received' = [received EXCEPT ![c] = << >>]
  /\ readErr' = [readErr EXCEPT ![c] = NoErr]
  /\ result' = [result EXCEPT ![c] = Pending]
  /\ acquired' = [acquired EXCEPT ![c] = 0]
  /\ released' = [released EXCEPT ![c] = 0]
  /\ dials' = [dials EXCEPT ![c] = 0]
  /\ writes' = [writes EXCEPT ![c] = 0]
  /\ reads' = [reads EXCEPT ![c] = 0]
  /\ UNCHANGED << semaphore, currentCalls >>
  /\ readDeadline' = [readDeadline EXCEPT ![c] = 0]
  /\ writeDeadline' = [writeDeadline EXCEPT ![c] = 0]
  /\ params' = [params EXCEPT ![c] = NoParams]
  /\ UNCHANGED << codecVars, metricsVars, clientVars, lockVars, handler,
                  maxConnections, args, serviceVars >>

\* (mutants) a channel with one slot more / one slot less
SemaphoreFull_OneMore == semaphore >= MaxConcurrentCalls + 1
SemaphoreFull_OneLess == semaphore >= MaxConcurrentCalls - 1

\* A send on the buffered channel can proceed iff the buffer is not full.
SemaphoreFull == semaphore >= MaxConcurrentCalls

\* select { case semaphore <- struct{}{}: ... default: return nil, ErrTooManyConnections }
Acquire(c) ==
  /\ pc[c] = "acquire"
  /\ IF SemaphoreFull
       THEN /\ result' = [result EXCEPT ![c] = Fail("ErrTooManyConnections", NoErr)]
            /\ pc' = [pc EXCEPT ![c] = "done"]
            /\ UNCHANGED << semaphore, acquired >>
       ELSE /\ semaphore' = semaphore + 1
            /\ acquired' = [acquired EXCEPT ![c] = @ + 1]
            /\ pc' = [pc EXCEPT ![c] = "inc"]
            /\ UNCHANGED result
  /\ UNCHANGED << currentCalls, text, conn, audio, received, readErr, released, dials, writes, reads >>
  /\ UNCHANGED << readDeadline, writeDeadline, codecVars, outerVars >>

\* GlobalMetrics.IncCurrentCalls(); the deferred release is registered.
IncCurrentCalls(c) ==
  /\ pc[c] = "inc"
  /\ currentCalls' = currentCalls + 1
  /\ pc' = [pc EXCEPT ![c] = "setup"]
  /\ UNCHANGED << semaphore, text, conn, audio, received, readErr, result, acquired, released,
                  dials, writes, reads >>
  /\ UNCHANGED << readDeadline, writeDeadline, codecVars, outerVars >>

\* (mutant) the limit itself is rejected
TextTooLong_Inclusive(n) == n >= MaxTextLength

\* setupByteDanceInput: if len(text) > appConfig.MaxTextLength
TextTooLong(n) == n > MaxTextLength

\* input, err := setupByteDanceInput(...); if err != nil { return nil, err };
\* then the request frame is built.  json.Marshal of the parameter map fails
\* only for a NaN or infinite speed, which the handler never passes on.
SetupInput(c) ==
  /\ pc[c] = "setup"
  /\ IF TextTooLong(text[c])
       THEN /\ result' = [result EXCEPT ![c] = Fail("ErrTextTooLong", NoErr)]
            /\ pc' = [pc EXCEPT ![c] = ExitBeforeDial]
            /\ UNCHANGED params
       ELSE /\ pc' = [pc EXCEPT ![c] = "dial"]
            /\ params' = [params EXCEPT
                             ![c] = TTSParams(c, text[c], args[c].voiceType,
                                              args[c].speed)]
            /\ UNCHANGED result
  /\ UNCHANGED << semaphore, currentCalls, text, conn, audio, received, readErr, acquired,
                  released, dials, writes, reads >>
  /\ UNCHANGED << readDeadline, writeDeadline, codecVars, metricsVars, clientVars,
                  lockVars, handler, maxConnections, args, serviceVars >>

\* c, _, err := dialer.Dial(...): the connection is opened
DialOk(c) ==
  /\ pc[c] = "dial"
  /\ dials' = [dials EXCEPT ![c] = @ + 1]
  /\ conn' = [conn EXCEPT ![c] = "open"]
  /\ pc' = [pc EXCEPT ![c] = "write"]
  /\ UNCHANGED << semaphore, currentCalls, text, audio, received, readErr, result, acquired,
                  released, writes, reads >>
  /\ UNCHANGED << readDeadline, writeDeadline, codecVars, outerVars >>

\* (mutant) a failed dial is tried once more
DialFail_Retry(c) ==
  /\ pc[c] = "dial"
  /\ dials[c] < 2
  /\ dials' = [dials EXCEPT ![c] = @ + 1]
  /\ UNCHANGED << semaphore, currentCalls, pc, text, conn, audio, received, readErr,
                  result, acquired, released, writes, reads >>
  /\ UNCHANGED << readDeadline, writeDeadline, codecVars, outerVars >>

\* ... or the dial fails: return nil, ErrWebSocketDialFailed
DialFail(c) ==
  /\ pc[c] = "dial"
  /\ dials' = [dials EXCEPT ![c] = @ + 1]
  /\ result' = [result EXCEPT ![c] = Fail("ErrWebSocketDialFailed", Err("dial", 0, << >>))]
  /\ pc' = [pc EXCEPT ![c] = ExitBeforeDial]
  /\ UNCHANGED << semaphore, currentCalls, text, conn, audio, received, readErr, acquired,
                  released, writes, reads >>
  /\ UNCHANGED << readDeadline, writeDeadline, codecVars, outerVars >>

\* time.Now() as the call sees it: time passes while the call is blocked in
\* a network operation, one tick for each operation that has returned.
Now(c) == dials[c] + writes[c] + reads[c]

\* c.SetReadDeadline(time.Now().Add(appConfig.ReadTimeout)) and
\* c.SetWriteDeadline(time.Now().Add(appConfig.WriteTimeout)) after the dial
FirstReadDeadline(c) == Now(c) + ConfigReadTimeout
WriteDeadline(c) == Now(c) + ConfigWriteTimeout

\* (mutant) the deadline set after the dial is left to run
LoopReadDeadline_NotRearmed(c) == readDeadline[c]

\* in the loop: c.SetReadDeadline(time.Now().Add(appConfig.ReadTimeout))
LoopReadDeadline(c) == Now(c) + ConfigReadTimeout

\* writes the deadlines, registers defer c.Close(), then err =
\* c.WriteMessage(...) succeeds
WriteOk(c) ==
  /\ pc[c] = "write"
  /\ writes' = [writes EXCEPT ![c] = @ + 1]
  /\ pc' = [pc EXCEPT ![c] = "read"]
  /\ UNCHANGED << semaphore, currentCalls, text, conn, audio, received, readErr, result,
                  acquired, released, dials, reads >>
  /\ readDeadline' = [readDeadline EXCEPT ![c] = FirstReadDeadline(c)]
  /\ writeDeadline' = [writeDeadline EXCEPT ![c] = WriteDeadline(c)]
  /\ UNCHANGED << codecVars, outerVars >>

\* ... or fails: return nil, ErrMessageWriteFailed
WriteFail(c) ==
  /\ pc[c] = "write"
  /\ writes' = [writes EXCEPT ![c] = @ + 1]
  /\ result' = [result EXCEPT ![c] = Fail("ErrMessageWriteFailed", Err("write", 0, << >>))]
  /\ pc' = [pc EXCEPT ![c] = ExitAfterDial]
  /\ UNCHANGED << semaphore, currentCalls, text, conn, audio, received, readErr, acquired,
                  released, dials, reads >>
  /\ readDeadline' = [readDeadline EXCEPT ![c] = FirstReadDeadline(c)]
  /\ writeDeadline' = [writeDeadline EXCEPT ![c] = WriteDeadline(c)]
  /\ UNCHANGED << codecVars, outerVars >>

\* (mutant) the partial-audio rule without the test for audio
ReturnPartial_NoAudioTest(aud, err) ==
  IsUnexpectedCloseError(err, {CloseGoingAway, CloseAbnormalClosure})

\* (mutant) any failed read after audio returns the audio
ReturnPartial_AnyError(aud, err) == Len(aud) > 0

\* if len(audio) > 0 && websocket.IsUnexpectedCloseError(err,
\*        websocket.CloseGoingAway, websocket.CloseAbnormalClosure)
ReturnPartial(aud, err) ==
  /\ Len(aud) > 0
  /\ IsUnexpectedCloseError(err, {CloseGoingAway, CloseAbnormalClosure})

\* (mutant) a failed read returns the accumulator together with the error
ReadError_AudioWithError(c) ==
  /\ pc[c] = "read"
  /\ \E err \in ReadErrors(c) :
       /\ readErr' = [readErr EXCEPT ![c] = err]
       /\ result' = [result EXCEPT ![c] =
                       IF ReturnPartial(audio[c], err)
                         THEN Ok(audio[c])
                         ELSE [Fail("ErrMessageReadFailed", err) EXCEPT !.audio = audio[c]]]
  /\ reads' = [reads EXCEPT ![c] = @ + 1]
  /\ pc' = [pc EXCEPT ![c] = ExitAfterDial]
  /\ UNCHANGED << semaphore, currentCalls, text, conn, audio, received, acquired,
                  released, dials, writes >>
  /\ readDeadline' = [readDeadline EXCEPT ![c] = LoopReadDeadline(c)]
  /\ UNCHANGED << writeDeadline, codecVars, outerVars >>

\* the read deadline is set anew, then _, message, err := c.ReadMessage()
\* with err != nil
ReadError(c) ==
  /\ pc[c] = "read"
  /\ \E err \in ReadErrors(c) :
       /\ readErr' = [readErr EXCEPT ![c] = err]
       /\ result' = [result EXCEPT ![c] =
                       IF ReturnPartial(audio[c], err)
                         THEN Ok(audio[c])
                         ELSE Fail("ErrMessageReadFailed", err)]
  /\ reads' = [reads EXCEPT ![c] = @ + 1]
  /\ pc' = [pc EXCEPT ![c] = ExitAfterDial]
  /\ UNCHANGED << semaphore, currentCalls, text, conn, audio, received, acquired,
                  released, dials, writes >>
  /\ readDeadline' = [readDeadline EXCEPT ![c] = LoopReadDeadline(c)]
  /\ UNCHANGED << writeDeadline, codecVars, outerVars >>

\* (mutant) the chunk is put in front
AppendAudio_InFront(aud, chunk) == chunk \o aud

\* audio = append(audio, resp.Audio...)
AppendAudio(aud, chunk) == aud \o chunk

\* the read deadline is set anew, then _, message, err := c.ReadMessage()
\* with err == nil,
\* parseByteDanceResponse(message), the append and the IsLast test
ReadFrame(c) ==
  /\ pc[c] = "read"
  /\ \E message \in Upstream(c) :
       /\ \/ Len(received[c]) < MaxFrames
          \/ Len(received[c]) = MaxFrames /\ message \in FinalFrames
       /\ received' = [received EXCEPT ![c] = Append(@, message)]
       /\ LET parsed == parseByteDanceResponse(message)
              newAudio == AppendAudio(audio[c], parsed.resp.Audio)
          IN  IF parsed.err # NoErr
                THEN /\ result' = [result EXCEPT ![c] =
                                     Fail("ErrResponseParseFailed", parsed.err)]
                     /\ pc' = [pc EXCEPT ![c] = ExitAfterDial]
                     /\ UNCHANGED audio
                ELSE /\ audio' = [audio EXCEPT ![c] = newAudio]
                     /\ IF parsed.resp.IsLast
                          THEN /\ result' = [result EXCEPT ![c] = Ok(newAudio)]
                               /\ pc' = [pc EXCEPT ![c] = ExitAfterDial]
                          ELSE /\ pc' = [pc EXCEPT ![c] = "read"]
                               /\ UNCHANGED result
  /\ reads' = [reads EXCEPT ![c] = @ + 1]
  /\ UNCHANGED << semaphore, currentCalls, text, conn, readErr, acquired, released,
                  dials, writes >>
  /\ readDeadline' = [readDeadline EXCEPT ![c] = LoopReadDeadline(c)]
  /\ UNCHANGED << writeDeadline, codecVars, outerVars >>

\* deferred: c.Close()
CloseConn(c) ==
  /\ pc[c] = "close"
  /\ conn' = [conn EXCEPT ![c] = "closed"]
  /\ pc' = [pc EXCEPT ![c] = "release"]
  /\ UNCHANGED << semaphore, currentCalls, text, audio, received, readErr, result, acquired,
                  released, dials, writes, reads >>
  /\ UNCHANGED << readDeadline, writeDeadline, codecVars, outerVars >>

\* deferred: <-semaphore
Release(c) ==
  /\ pc[c] = "release"
  /\ semaphore > 0
  /\ semaphore' = semaphore - 1
  /\ released' = [released EXCEPT ![c] = @ + 1]
  /\ pc' = [pc EXCEPT ![c] = "dec"]
  /\ UNCHANGED << currentCalls, text, conn, audio, received, readErr, result, acquired,
                  dials, writes, reads >>
  /\ UNCHANGED << readDeadline, writeDeadline, codecVars, outerVars >>

\* deferred: GlobalMetrics.DecCurrentCalls(), then the call has returned
DecCurrentCalls(c) ==
  /\ pc[c] = "dec"
  /\ currentCalls' = IF currentCalls > 0 THEN currentCalls - 1 ELSE currentCalls
  /\ pc' = [pc EXCEPT ![c] = "done"]
  /\ UNCHANGED << semaphore, text, conn, audio, received, readErr, result, acquired, released,
                  dials, writes, reads >>
  /\ UNCHANGED << readDeadline, writeDeadline, codecVars, outerVars >>

Next ==
  \E c \in Calls :
    \/ Call(c)
    \/ Acquire(c)
    \/ IncCurrentCalls(c)
    \/ SetupInput(c)
    \/ DialOk(c)
    \/ DialFail(c)
    \/ WriteOk(c)
    \/ WriteFail(c)
    \/ ReadError(c)
    \/ ReadFrame(c)
    \/ CloseConn(c)
    \/ Release(c)
    \/ DecCurrentCalls(c)

Spec == Init /\ [][Next]_vars

\* The relay call on its own.
NextRelay ==
  \/ Call(Relay)
  \/ Acquire(Relay)
  \/ IncCurrentCalls(Relay)
  \/ SetupInput(Relay)
  \/ DialOk(Relay)
  \/ DialFail(Relay)
  \/ WriteOk(Relay)
  \/ WriteFail(Relay)
  \/ ReadError(Relay)
  \/ ReadFrame(Relay)
  \/ CloseConn(Relay)
  \/ Release(Relay)
  \/ DecCurrentCalls(Relay)

SpecRelay == Init /\ [][NextRelay]_vars

\* The steps of a call once it is made.  The goroutine of the call is
\* scheduled, the deferred functions run when it returns, and every dial,
\* write and read on the connection returns (each has its deadline): a call
\* that can take a step eventually takes one.
Proceed(c) ==
  \/ Acquire(c)
  \/ IncCurrentCalls(c)
  \/ SetupInput(c)
  \/ DialOk(c)
  \/ DialFail(c)
  \/ WriteOk(c)
  \/ WriteFail(c)
  \/ ReadError(c)
  \/ ReadFrame(c)
  \/ CloseConn(c)
  \/ Release(c)
  \/ DecCurrentCalls(c)

\* The relay call under this scheduling; whether a call is made is up to the
\* client.
FairRelay == Init /\ [][NextRelay]_vars /\ WF_vars(Proceed(Relay))

\* ------------------------------------------------------------------------
\* The codec functions on their own
\* ------------------------------------------------------------------------

\* Bodies of frames: every sequence of the bytes 1 and 2 of MaxBody bytes or
\* fewer, the gzip form of a one-byte message, and that form with a trailer
\* that does not agree.
BodyBytes == {1, 2}
PlainBodies == UNION {[1 .. n -> BodyBytes] : n \in 0 .. MaxBody}
Bodies == PlainBodies \cup {gzipCompress(<< 69 >>), GzipMagic \o << 69, 7 >>}

\* The first header byte (header of 0, 1, 2 and 15 words), the second (every
\* message type with flags 0, 1 and 3), the third (no compression and gzip),
\* and the 4 bytes that follow the header (sequence number or error code).
FirstBytes == {16, 17, 18, 31}
SecondBytes == {t * 16 + fl : t \in 0 .. 15, fl \in {0, 1, 3}}
ThirdBytes == {16, 17}
FirstWords == {<< 0, 0, 0, 5 >>, << 255, 255, 255, 255 >>, << 128, 0, 0, 0 >>}

\* Frames as the upstream lays them out, and everything they can be cut to.
WholeFrames ==
  {<< b0, b1, b2, 0 >> \o w \o PutUint32(Len(body)) \o body :
     b0 \in FirstBytes, b1 \in SecondBytes, b2 \in ThirdBytes,
     w \in FirstWords, body \in Bodies}
CodecInputs == UNION {{SubSeq(f, 1, n) : n \in 0 .. Len(f)} : f \in WholeFrames}

InitCodec ==
  /\ InitCalls
  /\ maxConnections = DefaultMaxConnections
  /\ clock = Running
  /\ defaultHeader = DefaultHeaderBytes
  /\ input \in CodecInputs \cup Bodies
  /\ op = "none"
  /\ output = NoOutput

\* (mutant) the length field counts the bytes before compression
ClientRequest_PlainLength(header, plain) ==
  LET compressed == gzipCompress(plain)
  IN  header \o PutUint32(Len(plain)) \o compressed

\* input = gzipCompress(input), then the request: a copy of the default
\* header, the payload size, the payload
ClientRequest(header, plain) ==
  LET compressed == gzipCompress(plain)
  IN  header \o PutUint32(Len(compressed)) \o compressed

\* resp, err := parseByteDanceResponse(input)
Decode ==
  /\ op = "none"
  /\ output' = Parsed(parseByteDanceResponse(input))
  /\ op' = "parseByteDanceResponse"
  /\ UNCHANGED << semaphore, currentCalls, pc, text, conn, audio, received, readErr,
                  result, acquired, released, dials, writes, reads,
                  readDeadline, writeDeadline, defaultHeader, input, outerVars >>

\* gzipCompress(input)
Compress ==
  /\ op = "none"
  /\ output' = Bytes(gzipCompress(input))
  /\ op' = "gzipCompress"
  /\ UNCHANGED << semaphore, currentCalls, pc, text, conn, audio, received, readErr,
                  result, acquired, released, dials, writes, reads,
                  readDeadline, writeDeadline, defaultHeader, input, outerVars >>

\* gzipDecompress(input)
Decompress ==
  /\ op = "none"
  /\ output' = Bytes(gzipDecompress(input))
  /\ op' = "gzipDecompress"
  /\ UNCHANGED << semaphore, currentCalls, pc, text, conn, audio, received, readErr,
                  result, acquired, released, dials, writes, reads,
                  readDeadline, writeDeadline, defaultHeader, input, outerVars >>

\* gzipDecompress applied to what gzipCompress has returned
DecompressCompressed ==
  /\ op = "gzipCompress"
  /\ output' = Bytes(gzipDecompress(output.bytes))
  /\ op' = "roundTrip"
  /\ UNCHANGED << semaphore, currentCalls, pc, text, conn, audio, received, readErr,
                  result, acquired, released, dials, writes, reads,
                  readDeadline, writeDeadline, defaultHeader, input, outerVars >>

\* streamSynthesize from the compression of its input to clientRequest
BuildRequest ==
  /\ op = "none"
  /\ output' = Bytes(ClientRequest(defaultHeader, input))
  /\ op' = "clientRequest"
  /\ UNCHANGED << semaphore, currentCalls, pc, text, conn, audio, received, readErr,
                  result, acquired, released, dials, writes, reads,
                  readDeadline, writeDeadline, defaultHeader, input, outerVars >>

NextCodec ==
  \/ Decode
  \/ Compress
  \/ Decompress
  \/ DecompressCompressed
  \/ BuildRequest

SpecCodec == InitCodec /\ [][NextCodec]_vars

\* ------------------------------------------------------------------------
\* The metrics registry (metrics.go); each method runs under m.mu
\* ------------------------------------------------------------------------

\* (mutant) a failed request is counted as a request only
RecordRequest_FailureUncounted(success, responseTimeMs) ==
  /\ requestCount' = requestCount + 1
  /\ totalResponseTime' = totalResponseTime + responseTimeMs
  /\ successCount' = IF success THEN successCount + 1 ELSE successCount
  /\ UNCHANGED errorCount

\* func (m *Metrics) RecordRequest(success bool, responseTimeMs int64)
RecordRequest(success, responseTimeMs) ==
  /\ requestCount' = requestCount + 1
  /\ totalResponseTime' = totalResponseTime + responseTimeMs
  /\ IF success
       THEN successCount' = successCount + 1 /\ UNCHANGED errorCount
       ELSE errorCount' = errorCount + 1 /\ UNCHANGED successCount

\* (mutant) on overflow the newest records are dropped
TrimErrors_KeepOldest(log) ==
  IF Len(log) > MaxErrorRecords THEN SubSeq(log, 1, MaxErrorRecords) ELSE log

\* if len(m.errors) > 100 { m.errors = m.errors[len(m.errors)-100:] }
TrimErrors(log) ==
  IF Len(log) > MaxErrorRecords
    THEN SubSeq(log, Len(log) - MaxErrorRecords + 1, Len(log))
    ELSE log

\* ErrorRecord{Timestamp: time.Now()..., ErrorType, Message}: the time is
\* the number of the call of RecordError
ErrorRecord(errorType, message) ==
  [Timestamp |-> logged + 1, ErrorType |-> errorType, Message |-> message]

\* func (m *Metrics) RecordError(errorType, message string)
RecordError(errorType, message) ==
  /\ errors' = TrimErrors(Append(errors, ErrorRecord(errorType, message)))
  /\ logged' = logged + 1

\* (mutant) the increment is lost
IncActiveConnections_Skip == activeConnections' = activeConnections

\* func (m *Metrics) IncActiveConnections()
IncActiveConnections == activeConnections' = activeConnections + 1

\* func (m *Metrics) DecActiveConnections()
DecActiveConnections ==
  activeConnections' = IF activeConnections > 0 THEN activeConnections - 1
                                                ELSE activeConnections

\* (mutant) the success rate of no requests is 0
GetSuccessRate_ZeroDefault ==
  IF requestCount = 0
    THEN Returns("GetSuccessRate", 0, 1)
    ELSE Returns("GetSuccessRate", successCount * 100, requestCount)

\* func (m *Metrics) GetSuccessRate() float64: the quotient of the two
\* counts times 100, kept as a fraction
GetSuccessRate ==
  IF requestCount = 0
    THEN Returns("GetSuccessRate", 100, 1)
    ELSE Returns("GetSuccessRate", successCount * 100, requestCount)

\* func (m *Metrics) GetAvgResponseTime() int: integer division (the total
\* is never negative)
GetAvgResponseTime ==
  IF requestCount = 0
    THEN Returns("GetAvgResponseTime", 0, 1)
    ELSE Returns("GetAvgResponseTime", totalResponseTime \div requestCount, 1)

\* GetErrorCount, GetActiveConnections, GetCurrentCalls, GetRequestCount
GetErrorCount == Returns("GetErrorCount", errorCount, 1)
GetActiveConnections == Returns("GetActiveConnections", activeConnections, 1)
GetCurrentCalls == Returns("GetCurrentCalls", currentCalls, 1)
GetRequestCount == Returns("GetRequestCount", requestCount, 1)

\* A client records a request.
DoRecordRequest ==
  /\ requestCount < MaxRequests
  /\ \E success \in BOOLEAN, responseTimeMs \in ResponseTimes :
       RecordRequest(success, responseTimeMs)
  /\ got' = NotAsked
  /\ UNCHANGED << currentCalls, activeConnections, errors, logged, records, held,
                  otherVars >>

\* A connection is counted ...
DoIncActiveConnections ==
  /\ activeConnections < MaxActive
  /\ IncActiveConnections
  /\ got' = NotAsked
  /\ UNCHANGED << currentCalls, requestCount, successCount, errorCount,
                  totalResponseTime, errors, logged, records, held, otherVars >>

\* ... and counted out (also when none is counted).
DoDecActiveConnections ==
  /\ DecActiveConnections
  /\ got' = NotAsked
  /\ UNCHANGED << currentCalls, requestCount, successCount, errorCount,
                  totalResponseTime, errors, logged, records, held, otherVars >>

\* A call is counted (m.currentCalls++) ...
DoIncCurrentCalls ==
  /\ currentCalls < MaxActive
  /\ currentCalls' = currentCalls + 1
  /\ got' = NotAsked
  /\ UNCHANGED << metricsVars, records, held, otherVars >>

\* ... and counted out (if m.currentCalls > 0).
DoDecCurrentCalls ==
  /\ currentCalls' = IF currentCalls > 0 THEN currentCalls - 1 ELSE currentCalls
  /\ got' = NotAsked
  /\ UNCHANGED << metricsVars, records, held, otherVars >>

\* A client records an error.
DoRecordError ==
  /\ logged < MaxLogged
  /\ \E errorType \in {"connection_limit", "internal_error"} :
       RecordError(errorType, "message")
  /\ got' = NotAsked
  /\ UNCHANGED << currentCalls, requestCount, successCount, errorCount,
                  activeConnections, totalResponseTime, records, held, otherVars >>

\* A client calls one of the getters.
DoGet ==
  /\ got' \in {GetSuccessRate, GetAvgResponseTime, GetErrorCount,
                GetActiveConnections, GetCurrentCalls, GetRequestCount}
  /\ UNCHANGED << currentCalls, metricsVars, records, held, otherVars >>

NextMetrics ==
  \/ DoRecordRequest
  \/ DoIncActiveConnections
  \/ DoDecActiveConnections
  \/ DoIncCurrentCalls
  \/ DoDecCurrentCalls
  \/ DoRecordError
  \/ DoGet

SpecMetrics == Init /\ [][NextMetrics]_vars

\* ------------------------------------------------------------------------
\* The error log and a client that is given it
\* ------------------------------------------------------------------------

\* (mutant) the slice of the registry itself is returned
ReturnedArray_Registry == "errors"

\* records := make([]ErrorRecord, len(m.errors)); copy(records, m.errors);
\* return records: the slice returned is on the array made here
ReturnedArray == "records"

\* func (m *Metrics) GetErrorRecords() []ErrorRecord
GetErrorRecords ==
  /\ records' = errors
  /\ held' = [array |-> ReturnedArray, len |-> Len(errors), edits |-> 0]

\* The array a slice is on, and the elements the slice shows.
ArrayOf(slice) == IF slice.array = "errors" THEN errors ELSE records
View(slice) == SubSeq(ArrayOf(slice), 1, slice.len)

\* What a client writes.
Scribble == [Timestamp |-> 0, ErrorType |-> "scribble", Message |-> ""]

\* s[i] = x for the slice the client holds: the element of its array is
\* written.
WriteThrough(i, x) ==
  IF held.array = "errors"
    THEN errors' = [errors EXCEPT ![i] = x] /\ UNCHANGED records
    ELSE records' = [records EXCEPT ![i] = x] /\ UNCHANGED errors

\* A client asks for the error records.
DoGetErrorRecords ==
  /\ GetErrorRecords
  /\ got' = NotAsked
  /\ UNCHANGED << currentCalls, metricsVars, otherVars >>

\* An error is recorded.
LogError ==
  /\ logged < MaxRecorded
  /\ RecordError("internal_error", "message")
  /\ got' = NotAsked
  /\ UNCHANGED << currentCalls, requestCount, successCount, errorCount,
                  activeConnections, totalResponseTime, records, held, otherVars >>

\* The client overwrites the first or the last element of its slice.
ClientOverwrite ==
  /\ held.array # "none" /\ held.len > 0 /\ held.edits < MaxClientOps
  /\ \E i \in {1, held.len} : WriteThrough(i, Scribble)
  /\ held' = [held EXCEPT !.edits = @ + 1]
  /\ UNCHANGED << currentCalls, requestCount, successCount, errorCount,
                  activeConnections, totalResponseTime, logged, got, otherVars >>

\* The client cuts its slice: s = s[:len(s)-1].
ClientTruncate ==
  /\ held.array # "none" /\ held.len > 0 /\ held.edits < MaxClientOps
  /\ held' = [held EXCEPT !.len = @ - 1, !.edits = @ + 1]
  /\ UNCHANGED << currentCalls, metricsVars, got, records, otherVars >>

\* The client appends: s = append(s, x).  With room in the array the element
\* after the slice is written; without, a new array takes the elements.
ClientAppend ==
  /\ held.array # "none" /\ held.edits < MaxClientOps
  /\ IF held.len < Len(ArrayOf(held))
       THEN /\ WriteThrough(held.len + 1, Scribble)
            /\ held' = [held EXCEPT !.len = @ + 1, !.edits = @ + 1]
       ELSE /\ records' = Append(View(held), Scribble)
            /\ held' = [array |-> "records", len |-> held.len + 1,
                        edits |-> held.edits + 1]
            /\ UNCHANGED errors
  /\ UNCHANGED << currentCalls, requestCount, successCount, errorCount,
                  activeConnections, totalResponseTime, logged, got, otherVars >>

NextErrorLog ==
  \/ LogError
  \/ DoGetErrorRecords
  \/ ClientOverwrite
  \/ ClientTruncate
  \/ ClientAppend

SpecErrorLog == Init /\ [][NextErrorLog]_vars

\* ------------------------------------------------------------------------
\* The methods of the registry statement by statement, under m.mu
\* ------------------------------------------------------------------------

\* (mutant) Lock does not wait
CanLock_NoWait == TRUE

\* m.mu.Lock() returns when no writer and no reader is inside,
\* m.mu.RLock() when no writer is.
CanLock == mu.writer = 0 /\ mu.readers = {}
CanRLock == mu.writer = 0

\* The fields a method reads or writes, in the order of its statements.
\* RecordRequest: m.requestCount++, m.totalResponseTime += responseTimeMs,
\* then m.successCount++ or m.errorCount++; the getters: the test of
\* m.requestCount, then the operands of the quotient.
Program(th) ==
  CASE th.method = "RecordRequest" ->
         << "requestCount", "totalResponseTime",
            IF th.success THEN "successCount" ELSE "errorCount" >>
    [] th.method = "GetSuccessRate" ->
         << "requestCount", "successCount", "requestCount" >>
    [] th.method = "GetAvgResponseTime" ->
         << "requestCount", "totalResponseTime", "requestCount" >>
    [] OTHER -> << >>

Field(name) ==
  CASE name = "requestCount" -> requestCount
    [] name = "successCount" -> successCount
    [] name = "errorCount" -> errorCount
    [] name = "totalResponseTime" -> totalResponseTime

\* A goroutine calls RecordRequest or one of the derived getters.
Begin(t) ==
  /\ thread[t].pc = "idle"
  /\ \E method \in {"RecordRequest", "GetSuccessRate", "GetAvgResponseTime"},
        success \in BOOLEAN, ms \in {100, 200} :
       /\ method # "RecordRequest" => (~success /\ ms = 100)
       /\ thread' = [thread EXCEPT ![t] =
                       [Outside EXCEPT !.pc = IF method = "RecordRequest"
                                                THEN "lock" ELSE "rlock",
                                       !.method = method,
                                       !.success = success,
                                       !.ms = IF method = "RecordRequest" THEN ms ELSE 0,
                                       !.step = 1]]
  /\ UNCHANGED << mu, currentCalls, metricsVars, clientVars, synthVars, codecVars,
                  handlerVars, serviceVars >>

\* m.mu.Lock()
MuLock(t) ==
  /\ thread[t].pc = "lock"
  /\ CanLock
  /\ mu' = [mu EXCEPT !.writer = t]
  /\ thread' = [thread EXCEPT ![t].pc = "load"]
  /\ UNCHANGED << currentCalls, metricsVars, clientVars, synthVars, codecVars,
                  handlerVars, serviceVars >>

\* The field of the statement is read ...
LoadField(t) ==
  /\ thread[t].pc = "load"
  /\ thread' = [thread EXCEPT ![t].regs = << Field(Program(thread[t])[thread[t].step]) >>,
                              ![t].pc = "store"]
  /\ UNCHANGED << mu, currentCalls, metricsVars, clientVars, synthVars, codecVars,
                  handlerVars, serviceVars >>

\* ... and written with what was read plus 1 (plus responseTimeMs).
StoreField(t) ==
  /\ thread[t].pc = "store"
  /\ LET th    == thread[t]
         name  == Program(th)[th.step]
         value == th.regs[1] + (IF name = "totalResponseTime" THEN th.ms ELSE 1)
     IN  /\ requestCount' = IF name = "requestCount" THEN value ELSE requestCount
         /\ successCount' = IF name = "successCount" THEN value ELSE successCount
         /\ errorCount' = IF name = "errorCount" THEN value ELSE errorCount
         /\ totalResponseTime' =
              IF name = "totalResponseTime" THEN value ELSE totalResponseTime
         /\ thread' = [thread EXCEPT
                         ![t].regs = << >>,
                         ![t].step = @ + 1,
                         ![t].pc = IF th.step = Len(Program(th)) THEN "unlock" ELSE "load"]
  /\ UNCHANGED << mu, currentCalls, activeConnections, errors, logged, clientVars,
                  synthVars, codecVars, handlerVars, serviceVars >>

\* deferred: m.mu.Unlock()
MuUnlock(t) ==
  /\ thread[t].pc = "unlock"
  /\ mu' = [mu EXCEPT !.writer = 0]
  /\ thread' = [thread EXCEPT ![t].pc = "done"]
  /\ UNCHANGED << currentCalls, metricsVars, clientVars, synthVars, codecVars,
                  handlerVars, serviceVars >>

\* m.mu.RLock()
MuRLock(t) ==
  /\ thread[t].pc = "rlock"
  /\ CanRLock
  /\ mu' = [mu EXCEPT !.readers = @ \cup {t}]
  /\ thread' = [thread EXCEPT ![t].pc = "read"]
  /\ UNCHANGED << currentCalls, metricsVars, clientVars, synthVars, codecVars,
                  handlerVars, serviceVars >>

\* A getter reads the next field it uses.
ReadField(t) ==
  /\ thread[t].pc = "read"
  /\ LET th == thread[t]
     IN  thread' = [thread EXCEPT
                      ![t].regs = Append(@, Field(Program(th)[th.step])),
                      ![t].step = @ + 1,
                      ![t].pc = IF th.step = Len(Program(th)) THEN "return" ELSE "read"]
  /\ UNCHANGED << mu, currentCalls, metricsVars, clientVars, synthVars, codecVars,
                  handlerVars, serviceVars >>

\* The getter computes what it returns from what it has read.
Return(t) ==
  /\ thread[t].pc = "return"
  /\ LET th == thread[t]
         r  == th.regs
     IN  thread' = [thread EXCEPT
                      ![t].ret =
                         IF r[1] = 0
                           THEN Returns(th.method,
                                        IF th.method = "GetSuccessRate" THEN 100 ELSE 0, 1)
                           ELSE IF th.method = "GetSuccessRate"
                                  THEN Returns(th.method, r[2] * 100, r[3])
                                  ELSE Returns(th.method, r[2] \div r[3], 1),
                      ![t].pc = "runlock"]
  /\ UNCHANGED << mu, currentCalls, metricsVars, clientVars, synthVars, codecVars,
                  handlerVars, serviceVars >>

\* deferred: m.mu.RUnlock()
MuRUnlock(t) ==
  /\ thread[t].pc = "runlock"
  /\ mu' = [mu EXCEPT !.readers = @ \ {t}]
  /\ thread' = [thread EXCEPT ![t].pc = "done"]
  /\ UNCHANGED << currentCalls, metricsVars, clientVars, synthVars, codecVars,
                  handlerVars, serviceVars >>

NextLocked ==
  \E t \in Threads :
    \/ Begin(t)
    \/ MuLock(t)
    \/ LoadField(t)
    \/ StoreField(t)
    \/ MuUnlock(t)
    \/ MuRLock(t)
    \/ ReadField(t)
    \/ Return(t)
    \/ MuRUnlock(t)

SpecLocked == Init /\ [][NextLocked]_vars

\* ------------------------------------------------------------------------
\* Vocabulary of the properties
\* ------------------------------------------------------------------------

\* The call holds a ticket: it has sent to the semaphore and not yet received.
HoldsTicket(c) == acquired[c] > released[c]

\* The call has an upstream connection that is being dialed or is open.
UsesUpstream(c) == pc[c] = "dial" \/ conn[c] = "open"

\* The call has executed a return statement (deferred functions may remain).
Returned(c) == result[c] # Pending

\* The call has returned to its caller.
Done(c) == pc[c] = "done"

\* A frame (1 header word) of message type 0xB that carries a chunk.
IsAudioChunk(f) == Len(f) >= 12 /\ f[2] \div 16 = 11 /\ f[2] % 16 # 0
ChunkSequence(f) == BigEndianInt32(SubSeq(f, 5, 8))
ChunkBytes(f) == SubSeq(f, 13, Len(f))
IsTerminalChunk(f) == IsAudioChunk(f) /\ ChunkSequence(f) < 0

\* A frame (1 header word) of message type 0xF with a payload of 8 bytes or more.
IsErrorResponse(f) == Len(f) >= 12 /\ f[2] \div 16 = 15

\* The audio bytes of the chunks of a message log, in the order of the log.
RECURSIVE ChunksOf(_)
ChunksOf(log) ==
  IF log = << >>
    THEN << >>
    ELSE LET rest == ChunksOf(SubSeq(log, 1, Len(log) - 1))
             last == log[Len(log)]
         IN  IF IsAudioChunk(last) THEN rest \o ChunkBytes(last) ELSE rest

IsPrefix(s, t) == Len(s) <= Len(t) /\ SubSeq(t, 1, Len(s)) = s

\* The fields of the 4 fixed header bytes of a frame.
HeaderSizeOf(f) == (f[1] % 16) * 4
MessageTypeOf(f) == f[2] \div 16
FlagsOf(f) == f[2] % 16
CompressionOf(f) == f[3] % 16

\* The frame has its 4 fixed bytes and all of the header it declares.
WellFramed(f) == Len(f) >= 4 /\ HeaderSizeOf(f) <= Len(f)
PayloadOf(f) == SubSeq(f, HeaderSizeOf(f) + 1, Len(f))

\* An acknowledgment (type 0xB, flags 0) and a well-formed frontend event
\* (type 0xC, payload of 4 bytes or more).
IsAcknowledgment(f) == WellFramed(f) /\ MessageTypeOf(f) = 11 /\ FlagsOf(f) = 0
IsFrontendEvent(f) ==
  WellFramed(f) /\ MessageTypeOf(f) = 12 /\ Len(PayloadOf(f)) >= 4

\* ------------------------------------------------------------------------
\* C1 .. C10
\* ------------------------------------------------------------------------

\* C1: in every reachable state at most MaxConcurrentCalls calls hold a
\* ticket, the channel holds exactly one element per holder, and at most
\* MaxConcurrentCalls upstream connections are being dialed or are open
\* (only a holder dials or owns an open connection).
C1_GateBound ==
  /\ Cardinality({c \in Calls : HoldsTicket(c)}) <= MaxConcurrentCalls
  /\ semaphore = Cardinality({c \in Calls : HoldsTicket(c)})
  /\ \A c \in Calls : UsesUpstream(c) => HoldsTicket(c)
  /\ Cardinality({c \in Calls : UsesUpstream(c)}) <= MaxConcurrentCalls

\* The gate is saturated by calls that all have their connection open while
\* a further call stands at the gate.
C1_Witness ==
  /\ Cardinality({c \in Calls : HoldsTicket(c) /\ conn[c] = "open"}) = MaxConcurrentCalls
  /\ \E c \in Calls : pc[c] = "acquire"

\* C2: the acquire never blocks (it can always be taken by a call standing
\* at the gate); taken with MaxConcurrentCalls tickets held it fails at once
\* with ErrTooManyConnections and leaves the gate as it was; taken with fewer
\* held it succeeds and takes exactly one ticket; a release frees exactly
\* one ticket.  So after one release from saturation exactly one acquire
\* succeeds and the next one fails again.
C2_AcquireStep(c) ==
  (pc[c] = "acquire" /\ pc'[c] # "acquire") =>
    IF semaphore = MaxConcurrentCalls
      THEN /\ pc'[c] = "done"
           /\ result'[c] = Fail("ErrTooManyConnections", NoErr)
           /\ semaphore' = semaphore
           /\ acquired' = acquired
           /\ released' = released
           /\ currentCalls' = currentCalls
      ELSE /\ semaphore' = semaphore + 1
           /\ acquired'[c] = 1
           /\ result'[c] = Pending
           /\ pc'[c] # "done"

C2_ReleaseStep(c) ==
  (released'[c] = released[c] + 1) => semaphore' = semaphore - 1

C2_FailFast ==
  /\ [](\A c \in Calls : pc[c] = "acquire" => ENABLED Acquire(c))
  /\ [][\A c \in Calls : C2_AcquireStep(c) /\ C2_ReleaseStep(c)]_vars

\* A call has been refused and the gate is saturated.
C2_Witness ==
  /\ semaphore = MaxConcurrentCalls
  /\ \E c \in Calls : Done(c) /\ result[c] = Fail("ErrTooManyConnections", NoErr)

\* C3: a call never acquires or releases more than once, never releases what
\* it has not acquired, and when it has returned it has released exactly the
\* ticket it acquired; a refused call has acquired and released nothing, and
\* every other call has acquired one.
C3_ReleasedExactlyOnce ==
  \A c \in Calls :
    /\ released[c] <= acquired[c]
    /\ acquired[c] <= 1
    /\ Done(c) => /\ released[c] = acquired[c]
                  /\ acquired[c] = IF result[c].err.kind = "ErrTooManyConnections"
                                     THEN 0 ELSE 1

\* Calls have returned by different exit paths, one of them before the dial,
\* each with its ticket released.
C3_Witness ==
  /\ \E c \in Calls : /\ Done(c) /\ released[c] = 1
                      /\ result[c].err.kind = "ErrTextTooLong"
  /\ \E c \in Calls : /\ Done(c) /\ released[c] = 1
                      /\ result[c].err.kind = "ErrResponseParseFailed"

\* C4: a call that has returned has no open connection: if its dial
\* succeeded the connection is closed, and it is closed before the ticket
\* is released.
C4_ConnectionClosed ==
  \A c \in Calls :
    /\ Done(c) => conn[c] = (IF dials[c] = 1 /\ result[c].err.kind # "ErrWebSocketDialFailed"
                               THEN "closed" ELSE "none")
    /\ conn[c] = "open" => HoldsTicket(c) /\ pc[c] \in {"write", "read", "close"}

\* A call whose write failed has returned with its connection closed.
C4_Witness ==
  \E c \in Calls : /\ Done(c) /\ conn[c] = "closed"
                   /\ result[c].err.kind = "ErrMessageWriteFailed"

\* C5 as claimed: every call with len(text) > MaxTextLength fails with
\* ErrTextTooLong (and touches no network); len(text) = MaxTextLength is not
\* rejected as too long.
C5_Original ==
  \A c \in Calls :
    /\ text[c] > MaxTextLength =>
         /\ dials[c] = 0 /\ writes[c] = 0 /\ reads[c] = 0
         /\ Done(c) => result[c].err.kind = "ErrTextTooLong"
    /\ text[c] = MaxTextLength => result[c].err.kind # "ErrTextTooLong"

\* C5 as amended: a call with len(text) > MaxTextLength never dials, writes
\* or reads; if the gate admitted it, it fails with ErrTextTooLong, and if
\* the gate refused it, it fails with ErrTooManyConnections (the gate comes
\* first); len(text) = MaxTextLength is never rejected as too long.
C5_TextTooLong ==
  \A c \in Calls :
    /\ text[c] > MaxTextLength =>
         /\ dials[c] = 0 /\ writes[c] = 0 /\ reads[c] = 0 /\ conn[c] = "none"
         /\ Returned(c) => result[c].err.kind =
                             (IF acquired[c] = 1 THEN "ErrTextTooLong"
                                                 ELSE "ErrTooManyConnections")
    /\ text[c] = MaxTextLength => result[c].err.kind # "ErrTextTooLong"

\* An over-long text was rejected after admission, while another call with a
\* text of exactly MaxTextLength bytes got as far as the receive loop.
C5_Witness ==
  /\ \E c \in Calls : /\ Done(c) /\ text[c] = MaxTextLength + 1
                      /\ result[c].err.kind = "ErrTextTooLong"
  /\ \E c \in Calls : text[c] = MaxTextLength /\ reads[c] > 0

\* C6: a terminal chunk is the last message a call reads: once it is in the
\* log the call has returned success, the returned buffer is the
\* concatenation of the bytes of all chunks read up to and including it,
\* and no read was issued after the one that delivered it.
C6_TerminalChunkEnds ==
  \A c \in Calls :
    \A i \in 1 .. Len(received[c]) :
      IsTerminalChunk(received[c][i]) =>
        /\ i = Len(received[c])
        /\ pc[c] \in {"close", "release", "dec", "done"}
        /\ result[c] = Ok(ChunksOf(received[c]))
        /\ reads[c] = Len(received[c])
        /\ readErr[c] = NoErr

\* A call has returned the three chunks it read, the last one terminal.
C6_Witness ==
  \E c \in Calls :
    /\ Done(c)
    /\ received[c] = << FrameA, FrameB, FrameLast >>
    /\ result[c] = Ok(<< 1, 2, 3 >>)

\* C7: the accumulator always equals the concatenation, in arrival order, of
\* the bytes of the chunks read so far, whatever their sequence numbers, and
\* during the receive loop every step extends it (the old value is a prefix
\* of the new one).
C7_AppendOnlyStep(c) ==
  (pc[c] = "read") => /\ IsPrefix(audio[c], audio'[c])
                      /\ IsPrefix(received[c], received'[c])

C7_ArrivalOrder ==
  /\ [](\A c \in Calls : audio[c] = ChunksOf(received[c]))
  /\ [][\A c \in Calls : C7_AppendOnlyStep(c)]_vars

\* Two chunks whose sequence numbers do not increase (5 then 3, or 5 twice)
\* have been accumulated in the order they arrived.
C7_Witness ==
  \E c \in Calls :
    /\ Len(received[c]) = 2
    /\ IsAudioChunk(received[c][1]) /\ IsAudioChunk(received[c][2])
    /\ ChunkSequence(received[c][1]) >= ChunkSequence(received[c][2])
    /\ audio[c] = ChunkBytes(received[c][1]) \o ChunkBytes(received[c][2])

\* C8 as claimed: when a read fails with a close error (a CloseError of any
\* close code, 1006 and 1001 among them) after audio has been accumulated,
\* the call returns the accumulated buffer and no error.
C8_Original ==
  \A c \in Calls :
    (readErr[c].kind = "CloseError" /\ Len(audio[c]) > 0) => result[c] = Ok(audio[c])

\* C9: when a read fails, whatever the error, while no chunk has been read,
\* the call fails with ErrMessageReadFailed and returns no audio.
C9_ReadFailedNoAudio ==
  \A c \in Calls :
    (readErr[c] # NoErr /\ \A i \in 1 .. Len(received[c]) : ~IsAudioChunk(received[c][i])) =>
      /\ result[c] = Fail("ErrMessageReadFailed", readErr[c])
      /\ result[c].audio = << >>
      /\ pc[c] \in {"close", "release", "dec", "done"}

\* A read ended with close code 1000, the class of error the partial-audio
\* rule accepts, after an acknowledgment only: the call failed.
C9_Witness ==
  \E c \in Calls :
    /\ Done(c)
    /\ received[c] = << FrameAck >>
    /\ readErr[c] = CloseError(1000)
    /\ result[c].err.kind = "ErrMessageReadFailed"

\* C10: an error frame is the last message a call reads: once it is in the
\* log the call has returned, no read was issued after it, the error
\* returned carries the code and the message of the frame (decompressed if
\* the frame says gzip), and no audio is returned, whatever was accumulated.
C10_ErrorFrameAborts ==
  \A c \in Calls :
    \A i \in 1 .. Len(received[c]) :
      IsErrorResponse(received[c][i]) =>
        /\ i = Len(received[c])
        /\ pc[c] \in {"close", "release", "dec", "done"}
        /\ reads[c] = Len(received[c])
        /\ result[c].err.kind = "ErrResponseParseFailed"
        /\ result[c].cause.kind = "server_error"
        /\ result[c].cause.code = 3001
        /\ result[c].cause.msg = << 69 >>
        /\ result[c].audio = << >>

\* An error frame arrived after a chunk had been accumulated: the call has
\* returned the error and none of the audio.
C10_Witness ==
  \E c \in Calls :
    /\ Done(c)
    /\ received[c] = << FrameA, FrameErrorGzip >>
    /\ audio[c] = << 1 >>
    /\ result[c] = Fail("ErrResponseParseFailed", Err("server_error", 3001, << 69 >>))

\* ------------------------------------------------------------------------
\* C11 .. C20
\* ------------------------------------------------------------------------

\* C11: every step of the receive loop that reads an acknowledgment or a
\* well-formed frontend event leaves the audio accumulator as it was, returns
\* nothing (no error, no result), and leaves the call in the loop with its
\* connection open, about to read again; and the read that follows can be
\* taken.
C11_NeutralStep(c) ==
  (/\ Len(received'[c]) = Len(received[c]) + 1
   /\ LET f == received'[c][Len(received'[c])]
       IN  IsAcknowledgment(f) \/ IsFrontendEvent(f))
    => /\ pc[c] = "read"
       /\ audio'[c] = audio[c]
       /\ result'[c] = Pending
       /\ readErr'[c] = readErr[c]
       /\ conn'[c] = "open"
       /\ pc'[c] = "read"
       /\ (ENABLED (ReadFrame(c) \/ ReadError(c)))'

C11_NeutralFrames == [][C11_NeutralStep(Relay)]_vars

\* The relay call has a chunk, has then read a frontend event, and stands in
\* the loop with the chunk as its audio.
C11_Witness ==
  /\ received[Relay] = << FrameA, FrameFrontend >>
  /\ audio[Relay] = << 1 >>
  /\ pc[Relay] = "read"
  /\ result[Relay] = Pending

\* C12: the write is issued under a write deadline armed at the time of the
\* write's own issue (that time plus WriteTimeout), and every read of the
\* loop, the first as the later ones, is issued under a read deadline armed
\* anew for it: the time of its issue plus ReadTimeout, which is later than
\* the deadline that was in force when the previous operation returned.
C12_DeadlineStep(c) ==
  /\ writes'[c] = writes[c] + 1
       => /\ writeDeadline'[c] = Now(c) + ConfigWriteTimeout
          /\ reads[c] = 0
  /\ reads'[c] = reads[c] + 1
       => /\ readDeadline'[c] = Now(c) + ConfigReadTimeout
          /\ readDeadline'[c] > readDeadline[c]
          /\ writeDeadline'[c] = writeDeadline[c]

C12_DeadlinePerOperation == [][C12_DeadlineStep(Relay)]_vars

\* After its third read the relay call has the deadline of that read, not an
\* earlier one, and the write deadline of its one write.
C12_Witness ==
  /\ reads[Relay] = 3
  /\ readDeadline[Relay] = 4 + ConfigReadTimeout
  /\ writeDeadline[Relay] = 1 + ConfigWriteTimeout

\* The place of a call on its way through streamSynthesize.
Stage(c) ==
  CASE pc[c] \in {"idle", "acquire", "inc", "setup"} -> 0
    [] pc[c] = "dial" -> 1
    [] pc[c] = "write" -> 2
    [] pc[c] = "read" -> 3
    [] OTHER -> 4

\* C13: a call dials at most once, writes its request at most once and only
\* on a connection whose dial succeeded, reads only after its write
\* succeeded, and goes through dialing, sending and receiving in this order
\* without going back; once it has returned (with a result or an error) it
\* dials, writes and reads no more and its result stands.
C13_Step(c) ==
  /\ dials'[c] <= 1 /\ writes'[c] <= 1
  /\ dials'[c] > dials[c] => Stage(c) = 1 /\ dials[c] = 0 /\ writes[c] = 0 /\ reads[c] = 0
  /\ writes'[c] > writes[c] =>
       /\ Stage(c) = 2 /\ dials[c] = 1 /\ conn[c] = "open" /\ reads[c] = 0
       /\ result[c] = Pending
  /\ reads'[c] > reads[c] =>
       /\ Stage(c) = 3 /\ writes[c] = 1 /\ conn[c] = "open" /\ result[c] = Pending
  /\ pc[c] # "done" => Stage(c)' >= Stage(c)
  /\ (Returned(c) /\ pc[c] # "done") =>
       /\ Stage(c) = 4 /\ Stage(c)' = 4
       /\ dials'[c] = dials[c] /\ writes'[c] = writes[c] /\ reads'[c] = reads[c]
       /\ result'[c] = result[c]
  /\ (~Returned(c) /\ Returned(c)') =>
       IF result'[c].err = NoErr THEN Stage(c) = 3 ELSE Stage(c)' = 4

C13_NoRetry == [][C13_Step(Relay)]_vars

\* A call of the relay has dialed once, written once, read a frame and
\* failed in its second read.
C13_Witness ==
  /\ Done(Relay)
  /\ result[Relay].err.kind = "ErrMessageReadFailed"
  /\ dials[Relay] = 1 /\ writes[Relay] = 1 /\ reads[Relay] = 2

\* The errors streamSynthesize returns, by the sentinel they wrap.
TaggedErrors ==
  {"ErrTooManyConnections", "ErrTextTooLong", "ErrWebSocketDialFailed",
   "ErrMessageWriteFailed", "ErrMessageReadFailed", "ErrResponseParseFailed"}

\* The three ways a call can end.
FullSuccess(c) ==
  /\ result[c].err = NoErr
  /\ readErr[c] = NoErr
  /\ received[c] # << >> /\ parseByteDanceResponse(received[c][Len(received[c])]).resp.IsLast
  /\ result[c].audio = audio[c]
PartialSuccess(c) ==
  /\ result[c].err = NoErr
  /\ readErr[c] # NoErr
  /\ result[c].audio = audio[c] /\ audio[c] # << >>
Failure(c) ==
  /\ result[c].err.kind \in TaggedErrors
  /\ result[c].audio = << >>

\* C14: a call that has returned has ended in exactly one of three ways:
\* with the audio of a stream read to its terminal chunk and no error, with
\* the audio accumulated before a failed read and no error, or with one of
\* the tagged errors and no audio.
C14_OneOutcome ==
  \A c \in AllCalls :
    Returned(c) =>
      Cardinality({o \in {"full", "partial", "failure"} :
                     \/ o = "full" /\ FullSuccess(c)
                     \/ o = "partial" /\ PartialSuccess(c)
                     \/ o = "failure" /\ Failure(c)}) = 1

\* The relay call has returned from a read that failed after two chunks: an
\* error that is failure, with no audio, although audio was accumulated.
C14_Witness ==
  /\ Done(Relay)
  /\ Failure(Relay)
  /\ readErr[Relay] = ReadTimeout
  /\ audio[Relay] = << 1, 2 >>

\* The errors of parseByteDanceResponse that say the frame is malformed.
InvalidFrame ==
  {"too_short", "header_exceeds_data", "audio_insufficient_data",
   "error_insufficient_data", "frontend_insufficient_data"}

\* C15: parseByteDanceResponse applied to a frame of fewer than 4 bytes
\* returns the error "too short", applied to a frame of 4 bytes or more whose
\* header size (low nibble of byte 0, in words of 4 bytes) exceeds the length
\* of the frame it returns the error "header size exceeds data length"; in
\* both cases the response is the zero response: no audio, not last.
C15_MalformedHeader ==
  op = "parseByteDanceResponse" =>
    /\ Len(input) < 4 =>
         output = Parsed([resp |-> ZeroResp, err |-> Err("too_short", 0, << >>)])
    /\ (Len(input) >= 4 /\ HeaderSizeOf(input) > Len(input)) =>
         output = Parsed([resp |-> ZeroResp, err |-> Err("header_exceeds_data", 0, << >>)])
    /\ (Len(input) < 4 \/ HeaderSizeOf(input) > Len(input)) =>
         output.err.kind \in InvalidFrame /\ output.resp.Audio = << >>

\* A frame of 7 bytes that declares a header of 2 words, its type that of
\* an audio chunk, has been refused.
C15_Witness ==
  /\ op = "parseByteDanceResponse"
  /\ input = << 18, 177, 16, 0, 0, 0, 0 >>
  /\ output.err.kind = "header_exceeds_data"

\* C16: parseByteDanceResponse applied to a frame of type 0xB whose flags
\* are not 0 fails when fewer than 8 bytes follow the header (none follow
\* one that is cut short); otherwise it
\* returns no error, as audio exactly the bytes after the first 8 of the
\* payload, and IsLast exactly when the first 4 bytes of the payload, read
\* as a big-endian signed integer, are negative (top bit set), whatever the
\* flags are.
C16_AudioChunk ==
  (/\ op = "parseByteDanceResponse"
   /\ Len(input) >= 2 /\ MessageTypeOf(input) = 11 /\ FlagsOf(input) # 0)
    => LET payload == IF WellFramed(input) THEN PayloadOf(input) ELSE << >>
       IN  IF Len(payload) < 8
             THEN /\ output.err.kind \in InvalidFrame
                  /\ WellFramed(input) => output.err.kind = "audio_insufficient_data"
                  /\ output.resp = ZeroResp
             ELSE /\ output.err = NoErr
                  /\ output.resp.Audio = SubSeq(payload, 9, Len(payload))
                  /\ output.resp.IsLast = (payload[1] >= 128)

\* A chunk with flags 1 and sequence number -1 has been decoded as the last
\* one, with its 2 bytes of audio.
C16_Witness ==
  /\ op = "parseByteDanceResponse"
  /\ input = << 17, 177, 16, 0, 255, 255, 255, 255, 0, 0, 0, 2, 1, 2 >>
  /\ output.resp = [Audio |-> << 1, 2 >>, IsLast |-> TRUE]
  /\ output.err = NoErr

\* The last frame the call has read is of a type other than 0xB, 0xC, 0xF.
LastFrame(c) == received[c][Len(received[c])]
ReadUnknownType(c) ==
  /\ received[c] # << >>
  /\ Len(LastFrame(c)) >= 2
  /\ MessageTypeOf(LastFrame(c)) \notin {11, 12, 15}

\* C17 as stated: whenever the last frame read is of an unknown type, the
\* decoder has failed with the unknown-message-type error and the call has
\* failed without audio.
C17_Original ==
  ReadUnknownType(Relay) =>
    /\ result[Relay].cause.kind = "unknown_message_type"
    /\ result[Relay].err.kind = "ErrResponseParseFailed"
    /\ result[Relay].audio = << >>

\* C17: whenever the last frame read is of a type other than 0xB, 0xC and
\* 0xF, the call has failed with ErrResponseParseFailed and without audio;
\* the decoder's error is the unknown-message-type error, naming the type,
\* if the frame has its 4 fixed bytes and all of the header it declares, and
\* one of the malformed-frame errors of C15 if it has not.
C17_UnknownType ==
  ReadUnknownType(Relay) =>
    /\ result[Relay].err.kind = "ErrResponseParseFailed"
    /\ result[Relay].audio = << >>
    /\ pc[Relay] \notin {"read", "write", "dial"}
    /\ IF WellFramed(LastFrame(Relay))
         THEN result[Relay].cause =
                Err("unknown_message_type", MessageTypeOf(LastFrame(Relay)), << >>)
         ELSE result[Relay].cause.kind \in {"too_short", "header_exceeds_data"}

\* The relay call has read a chunk and then a well-framed frame of type 9,
\* and has returned the parse failure without the chunk.
C17_Witness ==
  /\ Done(Relay)
  /\ Len(received[Relay]) = 2
  /\ received[Relay][1] = FrameA
  /\ WellFramed(LastFrame(Relay)) /\ MessageTypeOf(LastFrame(Relay)) = 9
  /\ Len(LastFrame(Relay)) > 4
  /\ audio[Relay] = << 1 >>
  /\ result[Relay] = Fail("ErrResponseParseFailed", Err("unknown_message_type", 9, << >>))

\* The bytes are the gzip form of some message.
IsGzipStream(b) ==
  \E i \in 1 .. Len(b) + 1 : \E j \in 0 .. Len(b) : b = gzipCompress(SubSeq(b, i, j))

\* C18: gzipDecompress applied to bytes that are no gzip stream returns
\* them as they came; and parseByteDanceResponse applied to an error frame
\* or a frontend frame that says gzip and carries a body that is no gzip
\* stream decodes the frame all the same, an error frame to the server
\* error with its code and the body as its text, a frontend frame to no
\* error with the body as the message printed.
C18_GzipFailOpen ==
  /\ (op = "gzipDecompress" /\ ~IsGzipStream(input)) => output = Bytes(input)
  /\ (/\ op = "parseByteDanceResponse"
      /\ WellFramed(input) /\ CompressionOf(input) = 1)
       => LET payload == PayloadOf(input)
              code    == BigEndianInt32(SubSeq(payload, 1, 4))
              body8   == SubSeq(payload, 9, Len(payload))
              body4   == SubSeq(payload, 5, Len(payload))
          IN  /\ (MessageTypeOf(input) = 15 /\ Len(payload) >= 8 /\ ~IsGzipStream(body8))
                   => /\ output.err = Err("server_error", code, body8)
                      /\ output.resp = ZeroResp
              /\ (MessageTypeOf(input) = 12 /\ Len(payload) >= 4 /\ ~IsGzipStream(body4))
                   => /\ output.err = NoErr
                      /\ output.resp = ZeroResp
                      /\ output.bytes = body4

\* An error frame that says gzip, with a body that has the gzip header and
\* a trailer that does not agree, has been decoded to the server error 5
\* with the body as its text.
C18_Witness ==
  /\ op = "parseByteDanceResponse"
  /\ input = << 17, 240, 17, 0, 0, 0, 0, 5, 0, 0, 0, 5, 31, 139, 8, 69, 7 >>
  /\ output.err = Err("server_error", 5, << 31, 139, 8, 69, 7 >>)

\* C19: gzipDecompress applied to what gzipCompress returns for any bytes,
\* none at all included, returns those bytes.
C19_RoundTrip ==
  op = "roundTrip" => output = Bytes(input)

\* The round trip has been made for no bytes at all.
C19_Witness ==
  /\ op = "roundTrip"
  /\ input = << >>
  /\ output.bytes = << >>

\* C20: the request built for an input is the 4 bytes 0x11 0x10 0x11 0x00,
\* then 4 bytes that are, big-endian, the number of bytes that follow them,
\* then the gzip form of the input and nothing more, 8 bytes plus the gzip
\* form in all; and defaultHeader is after the building what it was before.
C20_RequestFrame ==
  op = "clientRequest" =>
    LET frame      == output.bytes
        compressed == SubSeq(frame, 9, Len(frame))
    IN  /\ Len(frame) >= 8
        /\ SubSeq(frame, 1, 4) = << 17, 16, 17, 0 >>
        /\ frame[5] * 16777216 + frame[6] * 65536 + frame[7] * 256 + frame[8]
             = Len(compressed)
        /\ compressed = gzipCompress(input)
        /\ gzipDecompress(compressed) = input
        /\ Len(frame) = 8 + Len(gzipCompress(input))
        /\ defaultHeader = << 17, 16, 17, 0 >>

\* The request for an input of 2 bytes: 14 bytes, 6 of them announced.
C20_Witness ==
  /\ op = "clientRequest"
  /\ input = << 1, 2 >>
  /\ output.bytes = << 17, 16, 17, 0, 0, 0, 0, 6, 31, 139, 8, 1, 2, 2 >>
  /\ defaultHeader = << 17, 16, 17, 0 >>

\* ------------------------------------------------------------------------
\* handleOpenAITTSRequest
\* ------------------------------------------------------------------------

\* The API keys of the requests: the one the server is configured with
\* (OPENAI_TTS_API_KEY), another of legal characters, one with a bracket and
\* the empty one.
OpenAITTSAPIKey == "sk-configured"
KeysWithIllegalChars == {"sk-(1)"}
APIKeys == {OpenAITTSAPIKey, "sk-other", ""} \cup KeysWithIllegalChars

\* func isValidAPIKey(key string) bool
isValidAPIKey(key) == key # "" /\ key \notin KeysWithIllegalChars

\* A request all of whose fields but the voice and the speed are in order;
\* of the input its length is kept.
PlainRequest(voice, speed) ==
  [key |-> OpenAITTSAPIKey, body |-> "json", input |-> MaxTextLength, voice |-> voice,
   speed |-> speed]

\* Speeds of requests, in tenths: unset, below the range, its two ends, above
RequestSpeeds == {0, 4, 5, 20, 21}

\* The requests that may arrive: the first handler is sent every kind, the
\* second a plain one with one of two voices, the others one plain request.
Requests ==
  {PlainRequest("alloy", speed) : speed \in RequestSpeeds}
    \cup {[PlainRequest("alloy", 0) EXCEPT !.key = k] : k \in APIKeys}
    \cup {[PlainRequest("alloy", 0) EXCEPT !.body = "malformed"],
          [PlainRequest("alloy", 0) EXCEPT !.input = 0],
          [PlainRequest("alloy", 0) EXCEPT !.input = MaxTextLength + 1],
          PlainRequest("", 0)}
RequestsOf(h) ==
  CASE h = FirstHandler -> Requests
    [] h = FirstHandler + 1 -> {PlainRequest("alloy", 0), PlainRequest("nova", 0)}
    [] OTHER -> {PlainRequest("alloy", 0)}

\* (mutant) a speed outside the range is brought to its nearest end
CheckSpeed_Clamped(speed) ==
  [status |-> 0,
   speed |-> IF speed < 5 THEN 5 ELSE IF speed > 20 THEN 20 ELSE speed]

\* if speed < 0.5 || speed > 2.0 { c.JSON(http.StatusBadRequest, ...); return }
CheckSpeed(speed) ==
  IF speed < 5 \/ speed > 20
    THEN [status |-> 400, speed |-> speed]
    ELSE [status |-> 0, speed |-> speed]

\* speed := req.Speed; if speed == 0 { speed = 1.0 }
DefaultSpeed(speed) == IF speed = 0 THEN 10 ELSE speed

\* What the handler answers before it calls streamSynthesize (status 0:
\* nothing, the call is made), and the speed it has then.
Answer(status, error) == [status |-> status, error |-> error, speed |-> 0]
Validation(req) ==
  CASE ~isValidAPIKey(req.key) -> Answer(401, "invalid_api_key")
    [] isValidAPIKey(req.key) /\ OpenAITTSAPIKey # "" /\ req.key # OpenAITTSAPIKey ->
         Answer(401, "unauthorized")
    [] OTHER ->
         IF req.body # "json" \/ req.input = 0 \/ req.voice = ""
           THEN Answer(400, "invalid_request")
           ELSE LET checked == CheckSpeed(DefaultSpeed(req.speed))
                IN  IF checked.status # 0
                      THEN Answer(checked.status, "invalid_request")
                      ELSE [status |-> 0, error |-> "", speed |-> checked.speed]

\* (mutant) a failed dial is answered as a failure of the service itself
StatusOf_DialInternal(err) ==
  CASE err.kind = "ErrTextTooLong" -> [status |-> 400, error |-> "invalid_request"]
    [] err.kind = "ErrTooManyConnections" ->
         [status |-> 503, error |-> "service_overloaded"]
    [] OTHER -> [status |-> 500, error |-> "internal_error"]

\* The switch on errors.Is(err, ...): http.StatusInternalServerError and
\* "internal_error" unless the error wraps one of five sentinels.
StatusOf(err) ==
  CASE err.kind = "ErrTextTooLong" -> [status |-> 400, error |-> "invalid_request"]
    [] err.kind = "ErrTooManyConnections" ->
         [status |-> 503, error |-> "service_overloaded"]
    [] err.kind = "ErrWebSocketDialFailed" ->
         [status |-> 503, error |-> "upstream_service_unavailable"]
    [] err.kind = "ErrInvalidAPIKey" -> [status |-> 401, error |-> "invalid_api_key"]
    [] err.kind = "ErrUnauthorized" -> [status |-> 401, error |-> "unauthorized"]
    [] OTHER -> [status |-> 500, error |-> "internal_error"]

\* time.Since(startTime).Milliseconds() at the moments a request is recorded
SinceStart == {clock.now - clock.startTime}

\* (mutant) the request is refused when the count has reached the limit
OverLimit_Inclusive(currentConnections) == currentConnections >= maxConnections

\* (mutant) the threshold refuses nobody
OverLimit_Advisory(currentConnections) == FALSE

\* if currentConnections > appConfig.MaxConnections
OverLimit(currentConnections) == currentConnections > maxConnections

\* c.JSON(http.StatusServiceUnavailable, ErrorResponse{Error: "service_overloaded", ...})
LimitStatus == 503

\* What the actions of the handler leave alone
callVars == << currentCalls, synthVars, codecVars, clientVars, lockVars,
              maxConnections, params , serviceVars >>

\* GlobalMetrics.IncActiveConnections(); defer GlobalMetrics.DecActiveConnections()
Enter(h) ==
  /\ handler[h].pc = "idle"
  /\ IncActiveConnections
  /\ handler' = [handler EXCEPT ![h].pc = "check", ![h].arrived = clock.now]
  /\ UNCHANGED << requestCount, successCount, errorCount, totalResponseTime, errors,
                  logged, args, callVars >>

\* currentConnections := GlobalMetrics.GetActiveConnections() and the
\* comparison with appConfig.MaxConnections: over the limit the request is
\* recorded as failed, the error "connection_limit" is recorded and the
\* response is sent.
CheckLimit(h) ==
  /\ handler[h].pc = "check"
  /\ LET currentConnections == activeConnections
     IN  IF OverLimit(currentConnections)
           THEN /\ \E ms \in SinceStart : RecordRequest(FALSE, ms)
                /\ RecordError("connection_limit", "Too many concurrent connections")
                /\ handler' = [handler EXCEPT
                                 ![h].pc = "leave", ![h].status = LimitStatus,
                                 ![h].error = "service_overloaded",
                                 ![h].recorded = "failure"]
           ELSE /\ handler' = [handler EXCEPT ![h].pc = "auth"]
                /\ UNCHANGED << requestCount, successCount, errorCount,
                                totalResponseTime, errors, logged >>
  /\ UNCHANGED << activeConnections, args, callVars >>

\* The API key, the body, the input, the voice and the speed are checked; a
\* request that fails a check is answered at once (and is not recorded), one
\* that passes them all goes on to streamSynthesize(req.Input,
\* byteDanceVoice, speed).
Validate(h) ==
  /\ handler[h].pc = "auth"
  /\ \E req \in RequestsOf(h) :
       LET answer == Validation(req)
       IN  IF answer.status # 0
             THEN /\ handler' = [handler EXCEPT
                                   ![h].pc = "leave", ![h].req = req,
                                   ![h].status = answer.status,
                                   ![h].error = answer.error]
                  /\ UNCHANGED args
             ELSE /\ handler' = [handler EXCEPT ![h].pc = "synth", ![h].req = req]
                  /\ args' = [args EXCEPT
                                ![h] = [voiceType |-> mapOpenAIVoiceToByteDance(req.voice),
                                        speed |-> answer.speed]]
  /\ UNCHANGED << metricsVars, callVars >>

\* audioData, err := streamSynthesize(req.Input, byteDanceVoice, speed): the
\* call is made, on the input of the request
Invoke(h) ==
  /\ handler[h].pc = "synth"
  /\ pc[h] = "idle"
  /\ Call(h)
  /\ text'[h] = handler[h].req.input

\* if err != nil: the status and the error type of the switch are sent, the
\* request is recorded as failed and the error is recorded.
RespondError(h) ==
  /\ handler[h].pc = "synth"
  /\ pc[h] = "done"
  /\ result[h].err # NoErr
  /\ LET answer == StatusOf(result[h].err)
     IN  /\ handler' = [handler EXCEPT
                          ![h].pc = "leave", ![h].status = answer.status,
                          ![h].error = answer.error, ![h].recorded = "failure"]
         /\ \E ms \in SinceStart : RecordRequest(FALSE, ms)
         /\ RecordError(answer.error, result[h].err.kind)
  /\ UNCHANGED << activeConnections, args, callVars >>

\* c.Writer.Write(audioData) succeeds: the audio is sent with status 200 and
\* the request is recorded as a success.
RespondAudio(h) ==
  /\ handler[h].pc = "synth"
  /\ pc[h] = "done"
  /\ result[h].err = NoErr
  /\ handler' = [handler EXCEPT
                   ![h].pc = "leave", ![h].status = 200, ![h].recorded = "success"]
  /\ \E ms \in SinceStart : RecordRequest(TRUE, ms)
  /\ UNCHANGED << activeConnections, errors, logged, args, callVars >>

\* c.Writer.Write(audioData) fails: the handler prints the error and returns;
\* nothing is recorded.
WriteAudioFail(h) ==
  /\ handler[h].pc = "synth"
  /\ pc[h] = "done"
  /\ result[h].err = NoErr
  /\ handler' = [handler EXCEPT ![h].pc = "leave", ![h].status = 200]
  /\ UNCHANGED << metricsVars, args, callVars >>

\* The handler returns: the deferred GlobalMetrics.DecActiveConnections()
Leave(h) ==
  /\ handler[h].pc = "leave"
  /\ DecActiveConnections
  /\ handler' = [handler EXCEPT ![h].pc = "done"]
  /\ UNCHANGED << requestCount, successCount, errorCount, totalResponseTime, errors,
                  logged, args, callVars >>

\* One request per handler, each with its own call of streamSynthesize.  The
\* upstream and the client fail the first handler only.
NextHandler ==
  \/ \E h \in Handlers :
       \/ Enter(h)
       \/ CheckLimit(h)
       \/ Validate(h)
       \/ Invoke(h)
       \/ Acquire(h)
       \/ IncCurrentCalls(h)
       \/ SetupInput(h)
       \/ DialOk(h)
       \/ WriteOk(h)
       \/ ReadFrame(h)
       \/ CloseConn(h)
       \/ Release(h)
       \/ DecCurrentCalls(h)
       \/ RespondError(h)
       \/ RespondAudio(h)
       \/ Leave(h)
  \/ DialFail(FirstHandler)
  \/ WriteFail(FirstHandler)
  \/ ReadError(FirstHandler)
  \/ WriteAudioFail(FirstHandler)

\* MAX_CONNECTIONS is read from the environment when the service starts.
InitHandler ==
  /\ InitCalls
  /\ clock = Running
  /\ maxConnections \in MaxConnectionsValues
  /\ defaultHeader = DefaultHeaderBytes
  /\ input = << >>
  /\ op = "none"
  /\ output = NoOutput

SpecHandler == InitHandler /\ [][NextHandler]_vars

\* ------------------------------------------------------------------------
\* handleWebSocket: the monitoring connection
\* ------------------------------------------------------------------------

\* The status pushes followed on one connection
MaxPushes == 1

\* A panic in the reader goroutine is recovered by nobody: the process ends.
Crashed == \E m \in Monitors : monitor[m].panic = "reader"

\* What the actions of a monitoring connection leave alone
restVars == << currentCalls, synthVars, codecVars, clientVars, lockVars, handlerVars,
              clock, health >>
countVars == << requestCount, successCount, errorCount, totalResponseTime >>

\* close(quit): the close of a closed channel panics
CloseQuit(m) ==
  [quit |-> "closed", closes |-> monitor[m].closes + 1,
   panics |-> monitor[m].quit = "closed"]

\* conn, err := upgrader.Upgrade(...) with err != nil: the error is recorded
\* and the handler returns
UpgradeFail(m) ==
  /\ ~Crashed
  /\ monitor[m].pc = "idle"
  /\ RecordError("websocket", "Failed to upgrade connection")
  /\ monitor' = [monitor EXCEPT ![m].pc = "done"]
  /\ UNCHANGED << countVars, activeConnections, restVars >>

\* The upgrade succeeds; defer conn.Close()
Upgrade(m) ==
  /\ ~Crashed
  /\ monitor[m].pc = "idle"
  /\ monitor' = [monitor EXCEPT ![m].pc = "count", ![m].conn = "open"]
  /\ UNCHANGED << metricsVars, restVars >>

\* GlobalMetrics.IncActiveConnections() with its decrement deferred; then the
\* ticker and the channel quit are made, close(quit) is deferred and the
\* reader goroutine is started
Attach(m) ==
  /\ ~Crashed
  /\ monitor[m].pc = "count"
  /\ IncActiveConnections
  /\ monitor' = [monitor EXCEPT ![m].pc = "loop", ![m].quit = "open",
                                ![m].reader = "read"]
  /\ UNCHANGED << countVars, errors, logged, restVars >>

\* case <-ticker.C with conn.WriteJSON(liveData) returning nil
Push(m) ==
  /\ ~Crashed
  /\ monitor[m].pc = "loop"
  /\ monitor[m].pushes < MaxPushes
  /\ monitor' = [monitor EXCEPT ![m].pushes = @ + 1]
  /\ UNCHANGED << metricsVars, restVars >>

\* case <-ticker.C with conn.WriteJSON(liveData) returning an error: return
PushFail(m) ==
  /\ ~Crashed
  /\ monitor[m].pc = "loop"
  /\ monitor' = [monitor EXCEPT ![m].pc = "return"]
  /\ UNCHANGED << metricsVars, restVars >>

\* case <-quit (a closed channel is ready): return
QuitSeen(m) ==
  /\ ~Crashed
  /\ monitor[m].pc = "loop"
  /\ monitor[m].quit = "closed"
  /\ monitor' = [monitor EXCEPT ![m].pc = "return"]
  /\ UNCHANGED << metricsVars, restVars >>

\* reader goroutine: conn.ReadMessage() returns an error (the client has
\* gone, or the handler has closed the connection)
ReadFail(m) ==
  /\ ~Crashed
  /\ monitor[m].reader = "read"
  /\ monitor' = [monitor EXCEPT ![m].reader = "close"]
  /\ UNCHANGED << metricsVars, restVars >>

\* reader goroutine: close(quit); break
ReaderCloseQuit(m) ==
  /\ ~Crashed
  /\ monitor[m].reader = "close"
  /\ LET closed == CloseQuit(m)
     IN  monitor' = [monitor EXCEPT
                       ![m].reader = "done", ![m].quit = closed.quit,
                       ![m].closes = closed.closes,
                       ![m].panic = IF closed.panics THEN "reader" ELSE @]
  /\ UNCHANGED << metricsVars, restVars >>

\* The handler returns: the deferred close(quit) runs first, then
\* ticker.Stop(); a panic here does not keep the other deferred calls from
\* running
DeferCloseQuit(m) ==
  /\ ~Crashed
  /\ monitor[m].pc = "return"
  /\ LET closed == CloseQuit(m)
     IN  monitor' = [monitor EXCEPT
                       ![m].pc = "dec", ![m].quit = closed.quit,
                       ![m].closes = closed.closes,
                       ![m].panic = IF closed.panics THEN "handler" ELSE @]
  /\ UNCHANGED << metricsVars, restVars >>

\* deferred: GlobalMetrics.DecActiveConnections()
Detach(m) ==
  /\ ~Crashed
  /\ monitor[m].pc = "dec"
  /\ DecActiveConnections
  /\ monitor' = [monitor EXCEPT ![m].pc = "close"]
  /\ UNCHANGED << countVars, errors, logged, restVars >>

\* deferred: conn.Close()
CloseMonitor(m) ==
  /\ ~Crashed
  /\ monitor[m].pc = "close"
  /\ monitor' = [monitor EXCEPT ![m].pc = "done", ![m].conn = "closed"]
  /\ UNCHANGED << metricsVars, restVars >>

NextMonitor ==
  \E m \in Monitors :
    \/ UpgradeFail(m)
    \/ Upgrade(m)
    \/ Attach(m)
    \/ Push(m)
    \/ PushFail(m)
    \/ QuitSeen(m)
    \/ ReadFail(m)
    \/ ReaderCloseQuit(m)
    \/ DeferCloseQuit(m)
    \/ Detach(m)
    \/ CloseMonitor(m)

SpecMonitor == Init /\ [][NextMonitor]_vars

\* ------------------------------------------------------------------------
\* Requests while time passes
\* ------------------------------------------------------------------------

\* The instants followed after the start of the service
MaxNow == 2

\* The service has just started: startTime = time.Now() in init()
Started == [now |-> 0, startTime |-> 0]

\* Time passes.
Tick ==
  /\ clock.now < MaxNow
  /\ clock' = [clock EXCEPT !.now = @ + 1]
  /\ UNCHANGED << currentCalls, synthVars, codecVars, metricsVars, clientVars,
                  lockVars, handlerVars, monitor, health >>

\* Two requests whose upstream answers with the terminal chunk or cannot be
\* dialed
TimedHandlers == Handlers \ {FirstHandler}

NextTimed ==
  \/ Tick
  \/ \E h \in TimedHandlers :
       \/ Enter(h)
       \/ CheckLimit(h)
       \/ Validate(h)
       \/ Invoke(h)
       \/ Acquire(h)
       \/ IncCurrentCalls(h)
       \/ SetupInput(h)
       \/ DialOk(h)
       \/ DialFail(h)
       \/ WriteOk(h)
       \/ ReadFrame(h)
       \/ CloseConn(h)
       \/ Release(h)
       \/ DecCurrentCalls(h)
       \/ RespondError(h)
       \/ RespondAudio(h)
       \/ Leave(h)

InitTimed ==
  /\ InitCalls
  /\ maxConnections = DefaultMaxConnections
  /\ clock = Started
  /\ defaultHeader = DefaultHeaderBytes
  /\ input = << >>
  /\ op = "none"
  /\ output = NoOutput

SpecTimed == InitTimed /\ [][NextTimed]_vars

\* ------------------------------------------------------------------------
\* The service: TTS requests and a monitoring connection side by side
\* ------------------------------------------------------------------------

\* The requests and the monitoring connection followed together
ServiceHandlers == {FirstHandler, FirstHandler + 1}
ServiceMonitors == {MaxMonitors}

NextService ==
  \/ \E h \in ServiceHandlers :
       \/ Enter(h)
       \/ CheckLimit(h)
       \/ Validate(h)
       \/ Invoke(h)
       \/ Acquire(h)
       \/ IncCurrentCalls(h)
       \/ SetupInput(h)
       \/ DialOk(h)
       \/ WriteOk(h)
       \/ ReadFrame(h)
       \/ CloseConn(h)
       \/ Release(h)
       \/ DecCurrentCalls(h)
       \/ RespondError(h)
       \/ RespondAudio(h)
       \/ Leave(h)
  \/ DialFail(FirstHandler)
  \/ WriteFail(FirstHandler)
  \/ ReadError(FirstHandler)
  \/ WriteAudioFail(FirstHandler)
  \/ \E m \in ServiceMonitors :
       \/ UpgradeFail(m)
       \/ Upgrade(m)
       \/ Attach(m)
       \/ Push(m)
       \/ PushFail(m)
       \/ QuitSeen(m)
       \/ ReadFail(m)
       \/ ReaderCloseQuit(m)
       \/ DeferCloseQuit(m)
       \/ Detach(m)
       \/ CloseMonitor(m)

SpecService == InitHandler /\ [][NextService]_vars

\* ------------------------------------------------------------------------
\* handleHealthCheck while requests are recorded
\* ------------------------------------------------------------------------

\* (mutant) the request count is read before the error count
HealthOrder_RequestsFirst ==
  << "GetActiveConnections", "GetCurrentCalls", "GetAvgResponseTime",
     "GetSuccessRate", "GetRequestCount", "GetErrorCount" >>

\* The getters in the order of the fields of the HealthResponse literal
\* (GetUptime reads no counter and takes no lock)
HealthOrder ==
  << "GetActiveConnections", "GetCurrentCalls", "GetAvgResponseTime",
     "GetSuccessRate", "GetErrorCount", "GetRequestCount" >>

\* The call of a getter by its name
Getter(name) ==
  CASE name = "GetActiveConnections" -> GetActiveConnections
    [] name = "GetCurrentCalls" -> GetCurrentCalls
    [] name = "GetAvgResponseTime" -> GetAvgResponseTime
    [] name = "GetSuccessRate" -> GetSuccessRate
    [] name = "GetErrorCount" -> GetErrorCount
    [] name = "GetRequestCount" -> GetRequestCount

\* The next field of the response is computed: one getter, one critical
\* section
HealthRead ==
  /\ health.step < Len(HealthOrder)
  /\ health' = [step |-> health.step + 1,
                response |-> Append(health.response,
                                    Getter(HealthOrder[health.step + 1]))]
  /\ UNCHANGED << currentCalls, synthVars, codecVars, metricsVars, clientVars,
                  lockVars, handlerVars, monitor, clock >>

\* c.JSON(http.StatusOK, response); the next health check may begin
HealthRespond ==
  /\ health.step = Len(HealthOrder)
  /\ health' = NotChecking
  /\ UNCHANGED << currentCalls, synthVars, codecVars, metricsVars, clientVars,
                  lockVars, handlerVars, monitor, clock >>

NextHealth ==
  \/ DoRecordRequest
  \/ DoRecordError
  \/ HealthRead
  \/ HealthRespond

SpecHealth == Init /\ [][NextHealth]_vars

\* ------------------------------------------------------------------------
\* C21 .. C30
\* ------------------------------------------------------------------------

\* C24: in every state requestCount is successCount + errorCount, and every
\* step that changes requestCount (a RecordRequest) adds 1 to it, adds one
\* of the response times to totalResponseTime, adds 1 to exactly one of
\* successCount and errorCount, and leaves activeConnections, currentCalls
\* and the error log as they were.
C24_Step ==
  requestCount' # requestCount =>
    /\ requestCount' = requestCount + 1
    /\ totalResponseTime' - totalResponseTime \in ResponseTimes
    /\ \/ successCount' = successCount + 1 /\ errorCount' = errorCount
       \/ successCount' = successCount /\ errorCount' = errorCount + 1
    /\ activeConnections' = activeConnections
    /\ currentCalls' = currentCalls
    /\ errors' = errors /\ logged' = logged

C24_RecordRequest ==
  /\ [](requestCount = successCount + errorCount)
  /\ [][C24_Step]_vars

\* A success and a failure have been recorded next to a counted connection,
\* a counted call and a logged error.
C24_Witness ==
  /\ requestCount = 2 /\ successCount = 1 /\ errorCount = 1
  /\ totalResponseTime = 301
  /\ activeConnections = 1 /\ currentCalls = 1 /\ Len(errors) = 1

\* C25: what GetSuccessRate returns is 100 when no request is recorded and
\* successCount / requestCount * 100 otherwise; what GetAvgResponseTime
\* returns is 0 when no request is recorded and otherwise the whole number q
\* with q * requestCount <= totalResponseTime < (q + 1) * requestCount; so
\* with a success of 100 ms and a failure of 200 ms recorded they return 50
\* and 150.
C25_DerivedGetters ==
  /\ got.getter = "GetSuccessRate" =>
       IF requestCount = 0
         THEN got.num = 100 * got.den
         ELSE got.num * requestCount = successCount * 100 * got.den
  /\ got.getter = "GetAvgResponseTime" =>
       /\ got.den = 1
       /\ IF requestCount = 0
            THEN got.num = 0
            ELSE /\ got.num * requestCount <= totalResponseTime
                 /\ totalResponseTime < (got.num + 1) * requestCount
  /\ (requestCount = 2 /\ successCount = 1 /\ totalResponseTime = 300) =>
       /\ got.getter = "GetSuccessRate" => got.num = 50 * got.den
       /\ got.getter = "GetAvgResponseTime" => got.num = 150

\* With a success and a failure of 100 ms and 200 ms recorded the average
\* response time has been asked for: 150.
C25_Witness ==
  /\ requestCount = 2 /\ successCount = 1 /\ errorCount = 1
  /\ totalResponseTime = 300
  /\ got = Returns("GetAvgResponseTime", 150, 1)

\* C26: after n calls of RecordError the log holds min(n, 100) records, and
\* they are the last min(n, 100) that were recorded, oldest first; so after
\* 105 calls it holds the records of the calls 6 to 105 in this order.
C26_LastHundred ==
  /\ Len(errors) = IF logged < 100 THEN logged ELSE 100
  /\ \A i \in 1 .. Len(errors) : errors[i].Timestamp = logged - Len(errors) + i
  /\ logged = 105 => errors[1].Timestamp = 6 /\ errors[100].Timestamp = 105

\* RecordError has been called 105 times.
C26_Witness ==
  /\ logged = 105
  /\ Len(errors) = 100
  /\ errors[1].Timestamp = 6

\* C27: a step in which no error is recorded (the client is given the
\* records, or overwrites, cuts or extends what it was given) leaves the
\* log of the registry as it was; a step in which the client is given the
\* records gives it what the registry holds; and a step in which an error
\* is recorded leaves the records the client holds as they were.
C27_Step ==
  /\ logged' = logged => errors' = errors
  /\ (logged' = logged /\ held'.array # "none" /\ held'.edits = 0)
       => View(held)' = errors'
  /\ logged' # logged => View(held)' = View(held)

C27_DefensiveCopy == [][C27_Step]_vars

\* The client was given a full log, 5 more errors were recorded, and the
\* client has overwritten the first record it holds: the registry holds the
\* records 6 to 105.
C27_Witness ==
  /\ held.array = "records" /\ held.len = 100 /\ held.edits = 1
  /\ records[1] = Scribble /\ records[2].Timestamp = 2
  /\ logged = 105
  /\ errors[1].Timestamp = 6

\* The calls of RecordRequest that have returned, and the sum of their
\* response times.
Recorded == {t \in Threads : thread[t].method = "RecordRequest" /\ thread[t].pc = "done"}
RECURSIVE SumMs(_)
SumMs(S) ==
  IF S = {} THEN 0
  ELSE LET t == CHOOSE x \in S : TRUE IN thread[t].ms + SumMs(S \ {t})

\* C28: a goroutine that writes the counters is inside m.mu alone, a
\* goroutine that reads them is inside with readers only; whenever no
\* writer is inside (so whenever a getter reads) requestCount is the number
\* of calls of RecordRequest that have returned, totalResponseTime the sum
\* of their response times and successCount + errorCount is requestCount;
\* and what a derived getter returns is its value for the counters as they
\* stand.
C28_NoLostUpdate ==
  /\ mu.writer # 0 => mu.readers = {}
  /\ \A t \in Threads :
       /\ thread[t].pc \in {"load", "store", "unlock"} => mu.writer = t
       /\ thread[t].pc \in {"read", "return", "runlock"} => t \in mu.readers
  /\ mu.writer = 0 =>
       /\ requestCount = Cardinality(Recorded)
       /\ totalResponseTime = SumMs(Recorded)
       /\ successCount + errorCount = requestCount
  /\ \A t \in Threads :
       thread[t].pc = "runlock" =>
         thread[t].ret = IF thread[t].method = "GetSuccessRate"
                           THEN GetSuccessRate ELSE GetAvgResponseTime

\* Three goroutines have called RecordRequest and all have returned.
C28_Witness ==
  /\ Recorded = Threads
  /\ requestCount = 3
  /\ \E t \in Threads : thread[t].success
  /\ \E t \in Threads : ~thread[t].success

\* The error streamSynthesize returned to handler h is one of the kinds.
Failed(h, kinds) ==
  /\ handler[h].pc \in {"leave", "done"}
  /\ pc[h] = "done"
  /\ result[h].err.kind \in kinds

SpeedDecides(h) ==
  /\ handler[h].pc \in {"synth", "leave", "done"}
  /\ handler[h].req.key = OpenAITTSAPIKey
  /\ handler[h].req.body = "json"
  /\ handler[h].req.input # 0
  /\ handler[h].req.voice # ""

\* The speed brought to the nearest end of [0.5, 2.0], in tenths.
Clamp(speed) == IF speed < 5 THEN 5 ELSE IF speed > 20 THEN 20 ELSE speed

\* C22 as stated: a request that is in order but for its speed is synthesized,
\* with its speed clamped to [0.5, 2.0] (an unset speed being 1.0).
C22_Original ==
  \A h \in Handlers :
    SpeedDecides(h) =>
      /\ args[h].speed = Clamp(DefaultSpeed(handler[h].req.speed))
      /\ handler[h].pc \in {"leave", "done"} => pc[h] = "done"

\* C22 (amended): an unset speed becomes 1.0; a speed within [0.5, 2.0] is
\* passed on as it is; a speed below 0.5 or above 2.0 is answered 400
\* invalid_request without a call of streamSynthesize and without a record;
\* every call of streamSynthesize carries a speed within [0.5, 2.0], which is
\* the speed_ratio of the request object it builds.
C22_SpeedChecked ==
  \A h \in Handlers :
    /\ SpeedDecides(h) =>
         LET speed == DefaultSpeed(handler[h].req.speed)
         IN  IF speed < 5 \/ speed > 20
               THEN /\ handler[h].pc \in {"leave", "done"}
                    /\ handler[h].status = 400
                    /\ handler[h].error = "invalid_request"
                    /\ handler[h].recorded = "no"
                    /\ pc[h] = "idle"
               ELSE /\ args[h].speed = speed
                    /\ handler[h].req.speed = 0 => args[h].speed = 10
    /\ pc[h] # "idle" => args[h].speed \in 5 .. 20
    /\ params[h] # NoParams => params[h].speed_ratio = args[h].speed

\* The first handler has answered 400 to a request of speed 2.1.
C22_Witness ==
  /\ SpeedDecides(FirstHandler)
  /\ handler[FirstHandler].req.speed = 21
  /\ handler[FirstHandler].status = 400
  /\ handler[FirstHandler].pc = "done"

\* The request object but for its generated request id
SansRequestId(p) == [p EXCEPT !.reqid = 0]

Overloaded(h) ==
  /\ handler[h].status = 503
  /\ handler[h].error = "service_overloaded"

\* C29 as stated: only the admission gate refuses a request for the load.
C29_Original ==
  \A h \in Handlers :
    Overloaded(h) => result[h].err.kind = "ErrTooManyConnections"

\* The step in which handler h compares the count of active connections with
\* MaxConnections
C29_Step ==
  \A h \in Handlers :
    (handler[h].pc = "check" /\ handler'[h].pc # "check") =>
      IF activeConnections > maxConnections
        THEN /\ handler'[h].pc = "leave"
             /\ Overloaded(h)'
             /\ requestCount' = requestCount + 1
             /\ errorCount' = errorCount + 1
             /\ Len(errors') = Len(errors) + 1
             /\ errors'[Len(errors')].ErrorType = "connection_limit"
        ELSE /\ handler'[h].pc = "auth"
             /\ handler'[h].status = 0
             /\ UNCHANGED << requestCount, errorCount, errors >>

\* C29 (amended): the count of active connections is enforced: a request
\* that, having counted itself, finds more than MaxConnections active is
\* answered 503 service_overloaded and recorded as failed with the error
\* connection_limit, and never reaches the admission gate; a request that
\* finds no more passes on.  A request refused for the load was refused by
\* this limit or by the gate.
C29_TwoLimits ==
  /\ [](\A h \in Handlers :
          Overloaded(h) =>
            \/ result[h].err.kind = "ErrTooManyConnections"
            \/ pc[h] = "idle" /\ acquired[h] = 0 /\ handler[h].recorded = "failure")
  /\ [][C29_Step]_vars

\* A request was refused at the connection limit, without a call of
\* streamSynthesize, while the gate was empty.
C29_Witness ==
  \E h \in Handlers :
    /\ Overloaded(h)
    /\ handler[h].pc = "leave"
    /\ pc[h] = "idle"
    /\ activeConnections > maxConnections
    /\ semaphore = 0

\* Request h was answered without a call of streamSynthesize and recorded as
\* failed: it was refused at the connection limit.
RefusedAtLimit(h) ==
  /\ handler[h].pc \in {"leave", "done"}
  /\ handler[h].recorded = "failure"
  /\ pc[h] = "idle"

\* C30 as stated: the refusal at the connection limit is 403 Forbidden.
C30_Original ==
  \A h \in Handlers : RefusedAtLimit(h) => handler[h].status = 403


\* ------------------------------------------------------------------------
\* C31 .. C40
\* ------------------------------------------------------------------------

\* C31 as stated: a request whose call failed to dial the upstream is
\* answered 502 Bad Gateway.
C31_Original ==
  \A h \in Handlers : Failed(h, {"ErrWebSocketDialFailed"}) => handler[h].status = 502

\* C34: a read that fails with an error that is no CloseError (the read
\* deadline was exceeded) makes the call fail with ErrMessageReadFailed and
\* return no audio, also when chunks have been accumulated.
C34_TimeoutDiscards ==
  \A c \in Calls :
    (readErr[c] # NoErr /\ readErr[c].kind # "CloseError") =>
      /\ result[c] = Fail("ErrMessageReadFailed", readErr[c])
      /\ result[c].audio = << >>
      /\ pc[c] \in {"close", "release", "dec", "done"}

\* A call has returned ErrMessageReadFailed after a timeout although it had
\* accumulated audio.
C34_Witness ==
  \E c \in Calls :
    /\ Done(c)
    /\ readErr[c] = ReadTimeout
    /\ audio[c] # << >>
    /\ result[c].err.kind = "ErrMessageReadFailed"
    /\ result[c].audio = << >>

\* C37 as stated: currentCalls never exceeds MaxConcurrentCalls.
C37_Original == currentCalls <= MaxConcurrentCalls

\* C40: a call with an over-long text that stands at a saturated gate fails
\* with ErrTooManyConnections; one that finds a free slot takes a ticket, holds
\* it while the text is validated, and has released it when it has returned
\* ErrTextTooLong.
C40_Step ==
  \A c \in Calls :
    (text[c] > MaxTextLength /\ pc[c] = "acquire" /\ pc'[c] # "acquire") =>
      IF semaphore = MaxConcurrentCalls
        THEN /\ pc'[c] = "done"
             /\ result'[c].err.kind = "ErrTooManyConnections"
        ELSE /\ acquired'[c] = 1
             /\ semaphore' = semaphore + 1
             /\ result'[c] = Pending
C40_AdmissionFirst ==
  /\ [](\A c \in Calls :
          text[c] > MaxTextLength =>
            /\ pc[c] \in {"inc", "setup"} => HoldsTicket(c) /\ semaphore >= 1
            /\ (Done(c) /\ result[c].err.kind = "ErrTextTooLong")
                 => acquired[c] = 1 /\ released[c] = 1
            /\ (Done(c) /\ acquired[c] = 0)
                 => result[c].err.kind = "ErrTooManyConnections")
  /\ [][C40_Step]_vars

\* A call with an over-long text holds one of the tickets while its text is
\* validated, and a call with a text of legal length has been refused at the
\* gate these holders saturate.
C40_Witness ==
  \E a, b \in Calls :
    /\ text[a] > MaxTextLength /\ pc[a] = "setup" /\ HoldsTicket(a)
    /\ semaphore = MaxConcurrentCalls
    /\ text[b] = MaxTextLength /\ Done(b)
    /\ result[b].err.kind = "ErrTooManyConnections"

\* Request h is counted in activeConnections; it has passed the comparison
\* with MaxConnections and has not returned.
Counted(h) == handler[h].pc \in {"check", "auth", "synth", "leave"}
PastCheck(h) ==
  \/ handler[h].pc \in {"auth", "synth"}
  \/ handler[h].pc = "leave" /\ ~RefusedAtLimit(h)

\* The step in which request h is refused at the connection limit
C36_Step ==
  \A h \in Handlers :
    (handler[h].pc = "check" /\ RefusedAtLimit(h)') =>
      Cardinality({g \in Handlers \ {h} : Counted(g)}) >= maxConnections

\* C36: the requests that have passed the connection-limit check and have
\* not returned are never more than MaxConnections (each of them is counted
\* in activeConnections from before its check until its return), and a
\* request is refused by the check only when at least MaxConnections other
\* requests are counted at that moment.
C36_LimitBounds ==
  /\ [](/\ activeConnections = Cardinality({h \in Handlers : Counted(h)})
        /\ Cardinality({h \in Handlers : PastCheck(h)}) <= maxConnections)
  /\ [][C36_Step]_vars

\* A request has just been refused while as many requests as MaxConnections
\* allows are past the check.
C36_Witness ==
  /\ \E h \in Handlers : RefusedAtLimit(h) /\ handler[h].pc = "leave"
  /\ Cardinality({h \in Handlers : PastCheck(h)}) = maxConnections

\* A read that returns a frame after which the loop reads on
C35_ReadOn ==
  /\ ReadFrame(Relay)
  /\ pc'[Relay] = "read"
  /\ result'[Relay] = Pending

\* C35: with every dial, write and read returning and at most MaxFrames
\* frames before a final one, a call that was made eventually has returned,
\* with its ticket released and no connection open; and as long as the
\* upstream has a frame to send that is neither terminal nor in error, the
\* call can read it and stays in the receive loop (nothing but the frames
\* ends the loop: the deadline is per read).
C35_Terminates ==
  /\ (pc[Relay] = "acquire") ~>
       (Done(Relay) /\ released[Relay] = acquired[Relay] /\ conn[Relay] # "open")
  /\ []((pc[Relay] = "read" /\ Len(received[Relay]) < MaxFrames) => ENABLED C35_ReadOn)

\* The call has read MaxFrames frames that kept it in the loop, then a terminal
\* chunk, and has returned with its connection closed.
C35_Witness ==
  /\ Done(Relay)
  /\ Len(received[Relay]) = MaxFrames + 1
  /\ result[Relay].err = NoErr
  /\ conn[Relay] = "closed"
  /\ released[Relay] = 1

\* C32 as stated: on no execution is the channel quit of a monitoring
\* connection closed twice.
C32_Original ==
  \A m \in Monitors : monitor[m].closes <= 1 /\ monitor[m].panic = "none"

\* C33 as stated: the time a request adds to totalResponseTime when it is
\* recorded is the time since the request arrived.
C33_Step ==
  \A h \in Handlers :
    (handler[h].recorded = "no" /\ handler'[h].recorded # "no") =>
      totalResponseTime' - totalResponseTime = clock.now - handler[h].arrived
C33_Original == [][C33_Step]_vars

\* The field of a complete health response that getter name has filled
HealthField(name) ==
  LET i == CHOOSE k \in 1 .. Len(health.response) : health.response[k].getter = name
  IN  health.response[i]
HealthComplete == health.step = Len(HealthOrder)

\* C39: in every complete health response error_count is at most
\* request_count, and success_rate (a fraction) is at least 0 and at most 100.
C39_HealthConsistent ==
  HealthComplete =>
    /\ HealthField("GetErrorCount").num <= HealthField("GetRequestCount").num
    /\ HealthField("GetSuccessRate").den > 0
    /\ HealthField("GetSuccessRate").num >= 0
    /\ HealthField("GetSuccessRate").num <= 100 * HealthField("GetSuccessRate").den

\* A complete response built while requests were recorded: its success rate
\* was read before any request and its counts after two failures, one of
\* them recorded between the two reads.
C39_Witness ==
  /\ HealthComplete
  /\ HealthField("GetSuccessRate") = Returns("GetSuccessRate", 100, 1)
  /\ HealthField("GetErrorCount").num = 1
  /\ HealthField("GetRequestCount").num = 2
  /\ errorCount = 2

\* The handlers, monitoring connections and calls whose increment has
\* happened and whose deferred decrement has not
CountedHandlers == {h \in Handlers : Counted(h)}
CountedMonitors == {m \in Monitors : monitor[m].pc \in {"loop", "return", "dec"}}
CountedCalls ==
  {c \in AllCalls : pc[c] \in {"setup", "dial", "write", "read", "close", "release", "dec"}}

\* No TTS request, monitoring connection or synthesis call is in flight.
Quiet ==
  /\ \A h \in Handlers : handler[h].pc \in {"idle", "done"}
  /\ \A m \in Monitors : monitor[m].pc \in {"idle", "done"}
  /\ \A c \in AllCalls : pc[c] \in {"idle", "done"}

\* C38: activeConnections counts exactly the handlers and monitoring
\* connections between their increment and their deferred decrement, and
\* currentCalls the calls between theirs; neither is negative, a decrement
\* never finds its counter at 0, and both are 0 when nothing is in flight.
C38_Balanced ==
  /\ activeConnections = Cardinality(CountedHandlers) + Cardinality(CountedMonitors)
  /\ currentCalls = Cardinality(CountedCalls)
  /\ activeConnections >= 0
  /\ currentCalls >= 0
  /\ \A h \in Handlers : handler[h].pc = "leave" => activeConnections > 0
  /\ \A m \in Monitors : monitor[m].pc = "dec" => activeConnections > 0
  /\ \A c \in AllCalls : pc[c] = "dec" => currentCalls > 0
  /\ Quiet => activeConnections = 0 /\ currentCalls = 0

\* Everything has ended, each by another exit path: one request answered
\* with audio, one with an error after its call had been counted, and the
\* monitoring connection by a panic of the deferred close(quit).
C38_Witness ==
  /\ Quiet
  /\ activeConnections = 0
  /\ currentCalls = 0
  /\ handler[FirstHandler].pc = "done"
  /\ handler[FirstHandler].status # 200
  /\ released[FirstHandler] > 0
  /\ \E h \in ServiceHandlers : handler[h].pc = "done" /\ handler[h].status = 200
  /\ \E m \in ServiceMonitors : monitor[m].pc = "done" /\ monitor[m].panic = "handler"

====
